---- MODULE Spec2Model ----
(***************************************************************************)
(* The relay server of the networked solitaire game (server/ws_server.js,  *)
(* the current version of the file: lines 262-493).  One action per        *)
(* callback: wss.on('connection'), ws.on('close') and, for ws.on('message')*)
(* one action per branch of the switch on the message type.  Node runs the *)
(* callbacks one at a time, so each callback is one atomic step.           *)
(***************************************************************************)
EXTENDS Integers, Sequences, FiniteSets, TLC

(***************************************************************************)
(* Bounds of the model.                                                    *)
(***************************************************************************)
\* connections are accepted while nextPlayerId <= MaxPlayerId
MaxPlayerId == 2
\* MakeMove messages applied to the card list in one run
MaxMoves == 2
\* entity ids the component store hands out: 0..MaxEntities-1
MaxEntities == 2
\* messages waiting in the client's receive queue
MaxInbox == 2

VARIABLES
    nextPlayerId,   \* let nextPlayerId
    players,        \* gameState.players: player id -> {id, name}
    cards,          \* gameState.cards: the array of card objects
    clients,        \* the Set clients; a connection is named by its ws.playerId
    readyState,     \* ws.readyState of every connection in clients
    sent,           \* per connection, the messages the last callback sent to it
    last,           \* the last callback: its kind, its input, the state it started from
    moves,          \* number of MakeMove messages applied so far (bounds the run)
    assigned,       \* the player ids assigned so far, in the order of assignment
    prev,           \* the MakeMove another connection had applied just before a MakeMove callback
    known,          \* per open connection, the cards and the players the messages sent to it have told it
    app,            \* a client: its page (bootstrap.js) and what its GameApp holds
    call,           \* the last call of a function of the rule engine, with its input and result
    store           \* the component store (World) of a client

serverVars == <<nextPlayerId, players, cards, clients, readyState, sent, last, moves,
                assigned, prev, known>>
clientVars == <<app, call, store>>
vars == <<serverVars, clientVars>>

(***************************************************************************)
(* JavaScript values.  A key that is absent from a parsed JSON object      *)
(* reads as undefined, so absent and undefined are one value here.         *)
(***************************************************************************)
Undefined == <<"undefined">>
Null == <<"null">>
Num(n) == <<"number", n>>
\* an undefined stack_type (stack_type is otherwise a string)
UndefinedType == "undefined"

Conns == 1..MaxPlayerId
\* broadcast(message) called without a sender: sender is undefined
NoSender == 0

Suits == {"Spade", "Heart"}
Ranks == {"Ace", "Two"}
\* the Suit and Rank enumerations of the Card component
DeckSuits == <<"Heart", "Diamond", "Club", "Spade">>
DeckRanks == <<"Ace", "Two", "Three", "Four", "Five", "Six", "Seven", "Eight",
               "Nine", "Ten", "Jack", "Queen", "King">>
\* the number a rank stands for: Ace is the lowest
RankValue(rank) == CHOOSE v \in 1..Len(DeckRanks) : DeckRanks[v] = rank

\* the client lays out Foundation piles 0..3 and Tableau piles 0..6
FoundationCount == 4
TableauCount == 7
StackTypes == {"Stock", "Waste", "Foundation", "Tableau"}

Max(S) == CHOOSE x \in S : \A y \in S : y <= x
Min(S) == CHOOSE x \in S : \A y \in S : x <= y

RECURSIVE SortedSeq(_)
SortedSeq(S) == IF S = {} THEN << >> ELSE <<Min(S)>> \o SortedSeq(S \ {Min(S)})

\* Array.prototype.findIndex, given the indices whose element satisfies the
\* callback: the first of them, 0 (for -1) when there is none
FindIndex(matching) == IF matching = {} THEN 0 ELSE Min(matching)

(***************************************************************************)
(* Players and the messages the server sends.                              *)
(***************************************************************************)
PlayerName(playerId) == <<"Player ", playerId>>
Player(playerId) == [id |-> playerId, name |-> PlayerName(playerId)]

\* Object.values(gameState.players): integer keys are listed in ascending order
PlayerList(ps) == [i \in 1..Cardinality(DOMAIN ps) |-> ps[SortedSeq(DOMAIN ps)[i]]]

GameJoined(playerId, ps, cs) ==
    [type |-> "GameJoined", playerId |-> playerId, players |-> PlayerList(ps), cards |-> cs]
PlayerJoined(p) == [type |-> "PlayerJoined", player |-> p]
\* the notice naming another player than the one who left
PlayerLeftNamingNext(playerId) == [type |-> "PlayerLeft", playerId |-> playerId + 1]
PlayerLeft(playerId) == [type |-> "PlayerLeft", playerId |-> playerId]
\* the update sent without the player list
GameStateUpdateWithoutPlayers(ps, cs) ==
    [type |-> "GameStateUpdate", players |-> << >>, cards |-> cs]
GameStateUpdate(ps, cs) ==
    [type |-> "GameStateUpdate", players |-> PlayerList(ps), cards |-> cs]
Pong == [type |-> "Pong"]

NoneSent == [c \in Conns |-> << >>]

\* ws.send(message) on connection ws
Send(out, ws, message) == [out EXCEPT ![ws] = Append(@, message)]

\* the comparison with the sender left out
BroadcastToSenderToo(out, cl, rs, message, sender) ==
    [c \in Conns |->
        IF c \in cl /\ rs[c] = "OPEN"
        THEN Append(out[c], message)
        ELSE out[c]]

\* broadcast(message, sender): every registered, open connection but the sender
Broadcast(out, cl, rs, message, sender) ==
    [c \in Conns |->
        IF c \in cl /\ c # sender /\ rs[c] = "OPEN"
        THEN Append(out[c], message)
        ELSE out[c]]

\* the update sent to nobody
BroadcastGameStateUpdateSkipped(out, cl, rs, ps, cs) == out

\* broadcastGameStateUpdate()
BroadcastGameStateUpdate(out, cl, rs, ps, cs) ==
    Broadcast(out, cl, rs, GameStateUpdate(ps, cs), NoSender)

OpenClients == {c \in clients : readyState[c] = "OPEN"}

\* what a callback leaves in last: its kind, connection, input and starting state
Handled(op, ws, payload) ==
    [op |-> op, ws |-> ws, payload |-> payload,
     cards0 |-> cards, players0 |-> players, clients0 |-> clients,
     open0 |-> OpenClients, next0 |-> nextPlayerId]

\* no MakeMove of another connection was applied by the callback before
NoMove == [ws |-> NoSender, payload |-> Undefined, cards0 |-> << >>]

\* nothing is known of a connection
NotHeard == [has |-> FALSE, cards |-> << >>, players |-> {}]

\* the players a connection knows after the messages sent to it, in order:
\* GameJoined gives the list, PlayerJoined adds one, PlayerLeft removes one
RECURSIVE PlayersHeard(_, _)
PlayersHeard(ps, messages) ==
    IF messages = << >>
    THEN ps
    ELSE LET m == Head(messages)
             after ==
                 CASE m.type = "GameJoined" ->
                          { m.players[i] : i \in 1..Len(m.players) }
                   [] m.type = "PlayerJoined" -> ps \cup {m.player}
                   [] m.type = "PlayerLeft" -> { q \in ps : q.id # m.playerId }
                   [] OTHER -> ps
         IN  PlayersHeard(after, Tail(messages))

\* for every connection registered and open after a callback, the cards of
\* the latest GameJoined or GameStateUpdate among the messages out[c] the
\* callback sent to it, or else what it had before, and the players it knows
Heard(k, out, cl, rs) ==
    [c \in Conns |->
        LET state == { i \in 1..Len(out[c]) :
                         out[c][i].type \in {"GameJoined", "GameStateUpdate"} }
        IN  IF c \notin cl \/ rs[c] # "OPEN"
            THEN NotHeard
            ELSE [has |-> k[c].has \/ state # {},
                  cards |-> IF state = {} THEN k[c].cards
                            ELSE out[c][Max(state)].cards,
                  players |-> PlayersHeard(k[c].players, out[c])]]

\* no client, rule engine or store is looked at
NoApp == [page |-> "none"]
NoCall == [fn |-> "none"]
NoStore == [kinds |-> {}]
ClientIdle == app = NoApp /\ call = NoCall /\ store = NoStore

(***************************************************************************)
(* State after the module has loaded.                                      *)
(***************************************************************************)
Init ==
    /\ ClientIdle
    /\ known = [c \in Conns |-> NotHeard]
    /\ nextPlayerId = 1
    /\ players = << >>
    /\ cards = << >>
    /\ clients = {}
    /\ readyState = << >>
    /\ sent = NoneSent
    /\ moves = 0
    /\ assigned = << >>
    /\ prev = NoMove
    /\ last = [op |-> "init", ws |-> NoSender, payload |-> Undefined,
               cards0 |-> << >>, players0 |-> << >>, clients0 |-> {},
               open0 |-> {}, next0 |-> 1]

(***************************************************************************)
(* wss.on('connection')                                                    *)
(***************************************************************************)
\* the counter left as it is
NextPlayerIdNotIncremented(playerId) == playerId

\* nextPlayerId++ leaves the counter one above the id it hands out
NextPlayerIdAfter(playerId) == playerId + 1

Connection ==
    /\ nextPlayerId <= MaxPlayerId
    /\ LET playerId == nextPlayerId
           ps == (playerId :> Player(playerId)) @@ players
           cl == clients \cup {playerId}
           rs == (playerId :> "OPEN") @@ readyState
       IN  /\ nextPlayerId' = NextPlayerIdAfter(playerId)
           /\ assigned' = Append(assigned, playerId)
           /\ players' = ps
           /\ clients' = cl
           /\ readyState' = rs
           /\ sent' = Broadcast(Send(NoneSent, playerId, GameJoined(playerId, ps, cards)),
                                cl, rs, PlayerJoined(ps[playerId]), playerId)
           /\ last' = Handled("connection", playerId, Undefined)
           /\ UNCHANGED clientVars
    /\ prev' = NoMove
    /\ UNCHANGED <<cards, moves>>
    /\ known' = Heard(known, sent', clients', readyState')

(***************************************************************************)
(* The peer starts closing: the socket leaves OPEN before 'close' fires.   *)
(***************************************************************************)
SocketClosing(ws) ==
    /\ ws \in clients
    /\ readyState[ws] = "OPEN"
    /\ readyState' = [readyState EXCEPT ![ws] = "CLOSING"]
    /\ sent' = NoneSent
    /\ last' = Handled("closing", ws, Undefined)
    /\ UNCHANGED clientVars
    /\ prev' = NoMove
    /\ UNCHANGED <<nextPlayerId, players, cards, clients, moves, assigned>>
    /\ known' = Heard(known, sent', clients', readyState')

(***************************************************************************)
(* ws.on('close')                                                          *)
(***************************************************************************)
\* the player left in the list
DeletePlayerKept(ps, playerId) == ps

\* delete gameState.players[playerId]
DeletePlayer(ps, playerId) == [p \in (DOMAIN ps) \ {playerId} |-> ps[p]]

Close(ws) ==
    /\ ws \in clients
    /\ LET cl == clients \ {ws}
           rs == [c \in cl |-> readyState[c]]
       IN  /\ players' = DeletePlayer(players, ws)
           /\ clients' = cl
           /\ readyState' = rs
           /\ sent' = Broadcast(NoneSent, cl, rs, PlayerLeft(ws), NoSender)
    /\ last' = Handled("close", ws, Undefined)
    /\ UNCHANGED clientVars
    /\ prev' = NoMove
    /\ UNCHANGED <<nextPlayerId, cards, moves, assigned>>
    /\ known' = Heard(known, sent', clients', readyState')

(***************************************************************************)
(* Cards.  A card object as the server reads it: entity.id, suit, rank,    *)
(* is_face_up, stack_type, stack_index (null for Stock and Waste) and      *)
(* position_in_stack.  The server never reads position {x, y}.             *)
(***************************************************************************)
Card(id, suit, rank, up, type, index, pos) ==
    [entity |-> [id |-> id], suit |-> suit, rank |-> rank, is_face_up |-> up,
     stack_type |-> type, stack_index |-> index, position_in_stack |-> pos]

\* the deal of the four-card deck Suits \X Ranks on two Tableau piles: pile i
\* gets i+1 cards, the last one face up, the rest goes to Stock face down
DealA ==
    << Card(1, "Spade", "Ace", TRUE,  "Tableau", Num(0), 0),
       Card(2, "Heart", "Ace", FALSE, "Tableau", Num(1), 0),
       Card(3, "Spade", "Two", TRUE,  "Tableau", Num(1), 1),
       Card(4, "Heart", "Two", FALSE, "Stock",   Null,   0) >>

\* the same deal of another shuffle of the deck
DealB ==
    << Card(1, "Heart", "Two", TRUE,  "Tableau", Num(0), 0),
       Card(2, "Spade", "Two", FALSE, "Tableau", Num(1), 0),
       Card(3, "Heart", "Ace", TRUE,  "Tableau", Num(1), 1),
       Card(4, "Spade", "Ace", FALSE, "Stock",   Null,   0) >>

\* a card list of a game under way: a Tableau pile of three cards, the two
\* lower ones face down, and a card on Waste
DealC ==
    << Card(1, "Spade", "Two", FALSE, "Tableau", Num(0), 0),
       Card(2, "Heart", "Ace", FALSE, "Tableau", Num(0), 1),
       Card(3, "Spade", "Ace", TRUE,  "Tableau", Num(0), 2),
       Card(4, "Heart", "Two", TRUE,  "Waste",   Null,   0) >>

\* DealC after two relayed moves (card 1 onto its own pile, card 3 onto
\* Tableau 1): the face-down card 1 lies above a gap of Tableau 0
DealE ==
    << Card(1, "Spade", "Two", FALSE, "Tableau", Num(0), 3),
       Card(2, "Heart", "Ace", TRUE,  "Tableau", Num(0), 1),
       Card(3, "Spade", "Ace", TRUE,  "Tableau", Num(1), 0),
       Card(4, "Heart", "Two", TRUE,  "Waste",   Null,   0) >>

(***************************************************************************)
(* Message payloads.  An object is <<"object", field, ...>>, an array is   *)
(* <<"array", elements>>.                                                  *)
(***************************************************************************)
Arr(elements) == <<"array", elements>>
\* { initial_state: { cards: cs } }
InitialStatePayload(cs) == <<"object", <<"object", cs>>>>
\* { moved_entity: m, target_stack: t }
MakeMovePayload(m, t) == <<"object", m, t>>
\* { id: id }
Entity(id) == <<"object", id>>
\* { stack_type: type, stack_index: index }
Target(type, index) == <<"object", type, index>>

\* the ProvideInitialState payloads clients send: no payload, no initial_state,
\* no cards, an empty array, a deal
InitialStatePayloads ==
    { Undefined, <<"object", Undefined>>, InitialStatePayload(Undefined),
      InitialStatePayload(Arr(<< >>)),
      InitialStatePayload(Arr(DealA)), InitialStatePayload(Arr(DealB)) }

\* targets that name a stack of the game
StackTargets ==
    { Target("Stock", Null), Target("Waste", Null),
      Target("Foundation", Num(0)), Target("Tableau", Num(0)), Target("Tableau", Num(1)) }

\* target objects: the stacks of the game, a Waste target without stack_index,
\* and the {Foundation: i} shape of findDropTargetStack, which has neither field
ObjectTargets ==
    StackTargets \cup { Target("Waste", Undefined), Target(UndefinedType, Undefined) }

\* an entity id no card has
UnknownEntity == Entity(Num(0))

WellFormedMovePayloads ==
    { MakeMovePayload(Entity(Num(id)), t) : id \in 1..Len(DealA), t \in ObjectTargets }

\* moves of any card, legal or not, onto a stack of the game
StackMovePayloads ==
    { MakeMovePayload(Entity(Num(id)), t) : id \in 1..Len(DealA), t \in StackTargets }

MalformedMovePayloads ==
    { Undefined,
      MakeMovePayload(Undefined, Target("Waste", Null)),
      MakeMovePayload(Null, Target("Waste", Null)),
      MakeMovePayload(Entity(Undefined), Target("Waste", Null)),
      MakeMovePayload(Entity(Num(1)), Undefined),
      MakeMovePayload(Entity(Num(1)), Null),
      MakeMovePayload(UnknownEntity, Null),
      MakeMovePayload(UnknownEntity, Target("Waste", Null)) }

MovePayloads == WellFormedMovePayloads \cup MalformedMovePayloads

\* the MakeMove payloads of the whole-server specification
SessionMovePayloads ==
    { MakeMovePayload(Entity(Num(3)), Target("Tableau", Num(0))),
      MakeMovePayload(Entity(Num(4)), Target("Waste", Null)),
      MakeMovePayload(Entity(Num(4)), Target("Tableau", Num(0))),
      MakeMovePayload(Entity(Num(2)), Target(UndefinedType, Undefined)),
      MakeMovePayload(UnknownEntity, Target("Waste", Null)),
      MakeMovePayload(Entity(Num(1)), Undefined) }

(***************************************************************************)
(* ws.on('message'): case 'ProvideInitialState'                            *)
(***************************************************************************)
\* an empty card array taken for a missing one
ProvidedCardsNonEmpty(payload) ==
    IF payload = Undefined THEN Undefined
    ELSE IF payload[2] = Undefined THEN Undefined
    ELSE IF payload[2][2] = Arr(<< >>) THEN Undefined
    ELSE payload[2][2]

\* payload && payload.initial_state && payload.initial_state.cards
\* (an array, even an empty one, is truthy)
ProvidedCards(payload) ==
    IF payload = Undefined THEN Undefined
    ELSE IF payload[2] = Undefined THEN Undefined
    ELSE payload[2][2]

\* the check of the card list left out: every initial state overwrites it
AcceptsInitialStateAlways(cs) == TRUE

\* gameState.cards.length === 0
AcceptsInitialState(cs) == Len(cs) = 0

ProvideInitialState(ws, payload) ==
    /\ ws \in clients
    /\ readyState[ws] = "OPEN"
    /\ LET provided == ProvidedCards(payload)
       IN  IF provided # Undefined /\ AcceptsInitialState(cards)
           THEN /\ cards' = provided[2]
                /\ sent' = BroadcastGameStateUpdate(NoneSent, clients, readyState,
                                                    players, provided[2])
           ELSE /\ cards' = cards
                /\ sent' = NoneSent
    /\ last' = Handled("ProvideInitialState", ws, payload)
    /\ UNCHANGED clientVars
    /\ prev' = NoMove
    /\ UNCHANGED <<nextPlayerId, players, clients, readyState, moves, assigned>>
    /\ known' = Heard(known, sent', clients', readyState')

(***************************************************************************)
(* ws.on('message'): case 'MakeMove'                                       *)
(***************************************************************************)
\* const { moved_entity, target_stack } = parsedMessage.payload || {}
MovedEntityOf(payload) == IF payload = Undefined THEN Undefined ELSE payload[2]
TargetStackOf(payload) == IF payload = Undefined THEN Undefined ELSE payload[3]

\* -1 taken for the first card (Math.max(0, index) on the 0-based index)
MovedCardIndexClamped(cs, moved_entity) ==
    IF Len(cs) = 0 THEN 0
    ELSE Max({1, FindIndex({ i \in 1..Len(cs) : Num(cs[i].entity.id) = moved_entity[2] })})

\* gameState.cards.findIndex(card => card.entity && card.entity.id === moved_entity.id)
MovedCardIndex(cs, moved_entity) ==
    FindIndex({ i \in 1..Len(cs) : Num(cs[i].entity.id) = moved_entity[2] })

\* How the handler ends: "invalid" (the payload check breaks out), "threw" (a
\* TypeError, reading a property of null, lands in the catch), "notfound" (no
\* card has the id) or "applied".
MoveOutcome(cs, payload) ==
    LET moved_entity == MovedEntityOf(payload)
        target_stack == TargetStackOf(payload)
    IN  IF moved_entity = Undefined \/ target_stack = Undefined THEN "invalid"
        ELSE IF moved_entity = Null THEN "threw"
        ELSE IF moved_entity[2] = Undefined THEN "invalid"
        ELSE IF MovedCardIndex(cs, moved_entity) = 0 THEN "notfound"
        ELSE IF target_stack = Null THEN "threw"
        ELSE "applied"

\* the moved card itself counted among the cards of the target stack
NewPositionCountingSelf(cs, movedCard, newStackType, newStackIndex) ==
    LET inTarget == { i \in 1..Len(cs) :
                        /\ cs[i].stack_type = newStackType
                        /\ cs[i].stack_index = newStackIndex }
        maxPosInTarget == Max({-1} \cup { cs[i].position_in_stack : i \in inTarget })
    IN  maxPosInTarget + 1

\* step 2: one more than the highest position_in_stack among the other cards
\* of the target stack, 0 when there is none
\* the card always put at position 0
NewPositionAtBottom(cs, movedCard, newStackType, newStackIndex) == 0

NewPositionInStack(cs, movedCard, newStackType, newStackIndex) ==
    LET inTarget == { i \in 1..Len(cs) :
                        /\ cs[i].entity.id # movedCard.entity.id
                        /\ cs[i].stack_type = newStackType
                        /\ cs[i].stack_index = newStackIndex }
        maxPosInTarget == Max({-1} \cup { cs[i].position_in_stack : i \in inTarget })
    IN  maxPosInTarget + 1

\* the new position_in_stack not assigned
PlaceCardKeepingPosition(cs, movedCardIndex, newStackType, newStackIndex, newPositionInStack) ==
    [cs EXCEPT ![movedCardIndex].stack_type = newStackType,
               ![movedCardIndex].stack_index = newStackIndex]

\* the new stack_index not assigned
PlaceCardKeepingIndex(cs, movedCardIndex, newStackType, newStackIndex, newPositionInStack) ==
    [cs EXCEPT ![movedCardIndex].stack_type = newStackType,
               ![movedCardIndex].position_in_stack = newPositionInStack]

\* the stack type read from a key the target does not have (target_stack.stackType)
PlaceCardMisreadingType(cs, movedCardIndex, newStackType, newStackIndex, newPositionInStack) ==
    [cs EXCEPT ![movedCardIndex].stack_type = UndefinedType,
               ![movedCardIndex].stack_index = newStackIndex,
               ![movedCardIndex].position_in_stack = newPositionInStack]

\* the moved card turned face up as well (movedCard.is_face_up = true)
PlaceCardFaceUp(cs, movedCardIndex, newStackType, newStackIndex, newPositionInStack) ==
    [cs EXCEPT ![movedCardIndex].stack_type = newStackType,
               ![movedCardIndex].stack_index = newStackIndex,
               ![movedCardIndex].position_in_stack = newPositionInStack,
               ![movedCardIndex].is_face_up = TRUE]

\* step 3: the moved card takes the target stack and the new position
\* the card left where it was
PlaceCardNowhere(cs, movedCardIndex, newStackType, newStackIndex, newPositionInStack) == cs

PlaceCard(cs, movedCardIndex, newStackType, newStackIndex, newPositionInStack) ==
    [cs EXCEPT ![movedCardIndex].stack_type = newStackType,
               ![movedCardIndex].stack_index = newStackIndex,
               ![movedCardIndex].position_in_stack = newPositionInStack]

\* the card looked for at the moved card's old position, not one below it
CardToRevealAtOldPosition(cs, oldStackType, oldStackIndex, oldPositionInStack) ==
    IF oldStackType = "Tableau" /\ oldPositionInStack > 0
    THEN FindIndex({ i \in 1..Len(cs) :
                        /\ cs[i].stack_type = oldStackType
                        /\ cs[i].stack_index = oldStackIndex
                        /\ cs[i].position_in_stack = oldPositionInStack })
    ELSE 0

\* step 4: the index of the card to reveal in the (already updated) card list,
\* 0 when the step is skipped or finds no card
CardToRevealIndex(cs, oldStackType, oldStackIndex, oldPositionInStack) ==
    IF oldStackType = "Tableau" /\ oldPositionInStack > 0
    THEN FindIndex({ i \in 1..Len(cs) :
                        /\ cs[i].stack_type = oldStackType
                        /\ cs[i].stack_index = oldStackIndex
                        /\ cs[i].position_in_stack = oldPositionInStack - 1 })
    ELSE 0

\* the card beneath left as it is
RevealNothing(cs, cardToRevealIndex) == cs

\* step 4: cardToReveal.is_face_up = true
Reveal(cs, cardToRevealIndex) ==
    IF cardToRevealIndex # 0 /\ ~cs[cardToRevealIndex].is_face_up
    THEN [cs EXCEPT ![cardToRevealIndex].is_face_up = TRUE]
    ELSE cs

\* steps 1-4 on the card list, for a payload whose outcome is "applied"
MovedCards(cs, payload) ==
    LET target_stack == TargetStackOf(payload)
        movedCardIndex == MovedCardIndex(cs, MovedEntityOf(payload))
        movedCard == cs[movedCardIndex]
        newStackType == target_stack[2]
        newStackIndex == target_stack[3]
        newPositionInStack ==
            NewPositionInStack(cs, movedCard, newStackType, newStackIndex)
        placed == PlaceCard(cs, movedCardIndex, newStackType, newStackIndex,
                            newPositionInStack)
    IN  Reveal(placed, CardToRevealIndex(placed, movedCard.stack_type,
                                         movedCard.stack_index,
                                         movedCard.position_in_stack))

\* the update broadcast before steps 2 to 4 instead of after them
MakeMoveBroadcastingFirst(ws, payload) ==
    /\ ws \in clients
    /\ readyState[ws] = "OPEN"
    /\ IF MoveOutcome(cards, payload) = "applied"
       THEN /\ moves < MaxMoves
            /\ cards' = MovedCards(cards, payload)
            /\ sent' = BroadcastGameStateUpdate(NoneSent, clients, readyState,
                                                players, cards)
            /\ moves' = moves + 1
       ELSE /\ cards' = cards
            /\ sent' = NoneSent
            /\ moves' = moves
    /\ last' = Handled("MakeMove", ws, payload)
    /\ UNCHANGED clientVars
    /\ prev' = NoMove
    /\ UNCHANGED <<nextPlayerId, players, clients, readyState, assigned>>
    /\ known' = Heard(known, sent', clients', readyState')

\* the move applied and the update not sent
MakeMoveNotBroadcast(ws, payload) ==
    /\ ws \in clients
    /\ readyState[ws] = "OPEN"
    /\ IF MoveOutcome(cards, payload) = "applied"
       THEN /\ moves < MaxMoves
            /\ cards' = MovedCards(cards, payload)
            /\ moves' = moves + 1
       ELSE /\ cards' = cards
            /\ moves' = moves
    /\ sent' = NoneSent
    /\ last' = Handled("MakeMove", ws, payload)
    /\ UNCHANGED clientVars
    /\ prev' = NoMove
    /\ UNCHANGED <<nextPlayerId, players, clients, readyState, assigned>>
    /\ known' = Heard(known, sent', clients', readyState')

\* the move the last callback applied, if it was a MakeMove of another
\* connection than ws and was applied
PrevMove(ws) ==
    IF /\ last.op = "MakeMove"
       /\ last.ws # ws
       /\ MoveOutcome(last.cards0, last.payload) = "applied"
    THEN [ws |-> last.ws, payload |-> last.payload, cards0 |-> last.cards0]
    ELSE NoMove

MakeMove(ws, payload) ==
    /\ ws \in clients
    /\ readyState[ws] = "OPEN"
    /\ IF MoveOutcome(cards, payload) = "applied"
       THEN /\ moves < MaxMoves
            /\ cards' = MovedCards(cards, payload)
            /\ sent' = BroadcastGameStateUpdate(NoneSent, clients, readyState,
                                                players, MovedCards(cards, payload))
            /\ moves' = moves + 1
       ELSE /\ cards' = cards
            /\ sent' = NoneSent
            /\ moves' = moves
    /\ last' = Handled("MakeMove", ws, payload)
    /\ UNCHANGED clientVars
    /\ prev' = PrevMove(ws)
    /\ UNCHANGED <<nextPlayerId, players, clients, readyState, assigned>>
    /\ known' = Heard(known, sent', clients', readyState')

(***************************************************************************)
(* ws.on('message'): the other branches                                    *)
(***************************************************************************)
\* the update sent to every open connection instead
RequestGameStateBroadcast(ws) ==
    /\ ws \in clients
    /\ readyState[ws] = "OPEN"
    /\ sent' = BroadcastGameStateUpdate(NoneSent, clients, readyState, players, cards)
    /\ last' = Handled("RequestGameState", ws, Undefined)
    /\ UNCHANGED clientVars
    /\ prev' = NoMove
    /\ UNCHANGED <<nextPlayerId, players, cards, clients, readyState, moves, assigned>>
    /\ known' = Heard(known, sent', clients', readyState')

RequestGameState(ws) ==
    /\ ws \in clients
    /\ readyState[ws] = "OPEN"
    /\ sent' = Send(NoneSent, ws, GameStateUpdate(players, cards))
    /\ last' = Handled("RequestGameState", ws, Undefined)
    /\ UNCHANGED clientVars
    /\ prev' = NoMove
    /\ UNCHANGED <<nextPlayerId, players, cards, clients, readyState, moves, assigned>>
    /\ known' = Heard(known, sent', clients', readyState')

\* the Pong sent to every open connection instead
PingAnsweredToAll(ws) ==
    /\ ws \in clients
    /\ readyState[ws] = "OPEN"
    /\ sent' = Broadcast(NoneSent, clients, readyState, Pong, NoSender)
    /\ last' = Handled("Ping", ws, Undefined)
    /\ UNCHANGED clientVars
    /\ prev' = NoMove
    /\ UNCHANGED <<nextPlayerId, players, cards, clients, readyState, moves, assigned>>
    /\ known' = Heard(known, sent', clients', readyState')

Ping(ws) ==
    /\ ws \in clients
    /\ readyState[ws] = "OPEN"
    /\ sent' = Send(NoneSent, ws, Pong)
    /\ last' = Handled("Ping", ws, Undefined)
    /\ UNCHANGED clientVars
    /\ prev' = NoMove
    /\ UNCHANGED <<nextPlayerId, players, cards, clients, readyState, moves, assigned>>
    /\ known' = Heard(known, sent', clients', readyState')

\* default: a type the switch does not know (JoinGame is one)
UnknownTypes == {"JoinGame", "Shuffle"}

\* the player names clients submit with JoinGame
PlayerNames == {<<"Alice">>}

\* the payload {player_name} of a JoinGame message
JoinGamePayload(player_name) == <<"object", player_name>>

\* messages of these types: <<type, payload>>
UnknownMessages ==
    { <<"JoinGame", JoinGamePayload(name)>> : name \in PlayerNames }
        \cup { <<type, Undefined>> : type \in UnknownTypes \ {"JoinGame"} }

UnknownMessage(ws, message) ==
    /\ ws \in clients
    /\ readyState[ws] = "OPEN"
    /\ sent' = NoneSent
    /\ last' = Handled("unknown", ws, message)
    /\ UNCHANGED clientVars
    /\ prev' = NoMove
    /\ UNCHANGED <<nextPlayerId, players, cards, clients, readyState, moves, assigned>>
    /\ known' = Heard(known, sent', clients', readyState')

\* the connection dropped from the set on a parse error
UnparseableMessageDropsClient(ws) ==
    /\ ws \in clients
    /\ readyState[ws] = "OPEN"
    /\ clients' = clients \ {ws}
    /\ sent' = NoneSent
    /\ last' = Handled("unparseable", ws, Undefined)
    /\ UNCHANGED clientVars
    /\ prev' = NoMove
    /\ UNCHANGED <<nextPlayerId, players, cards, readyState, moves, assigned>>
    /\ known' = Heard(known, sent', clients', readyState')

\* catch: JSON.parse threw
UnparseableMessage(ws) ==
    /\ ws \in clients
    /\ readyState[ws] = "OPEN"
    /\ sent' = NoneSent
    /\ last' = Handled("unparseable", ws, Undefined)
    /\ UNCHANGED clientVars
    /\ prev' = NoMove
    /\ UNCHANGED <<nextPlayerId, players, cards, clients, readyState, moves, assigned>>
    /\ known' = Heard(known, sent', clients', readyState')

(***************************************************************************)
(* The whole server, from start-up.                                        *)
(***************************************************************************)
Next ==
    \/ Connection
    \/ \E ws \in Conns : SocketClosing(ws)
    \/ \E ws \in Conns : Close(ws)
    \/ \E ws \in Conns, payload \in InitialStatePayloads : ProvideInitialState(ws, payload)
    \/ \E ws \in Conns, payload \in SessionMovePayloads : MakeMove(ws, payload)
    \/ \E ws \in Conns : RequestGameState(ws)
    \/ \E ws \in Conns : Ping(ws)
    \/ \E ws \in Conns, message \in UnknownMessages : UnknownMessage(ws, message)
    \/ \E ws \in Conns : UnparseableMessage(ws)

Spec == Init /\ [][Next]_vars

(***************************************************************************)
(* The MakeMove handler on its own: every connection is registered,        *)
(* connection 1 is open and the others are closing, a card list has been   *)
(* accepted, and the open client sends moves.                              *)
(***************************************************************************)
InitMovesFrom(deals) ==
    /\ ClientIdle
    /\ nextPlayerId = MaxPlayerId + 1
    /\ players = [p \in Conns |-> Player(p)]
    /\ cards \in deals
    /\ clients = Conns
    /\ readyState = [c \in Conns |-> IF c = 1 THEN "OPEN" ELSE "CLOSING"]
    /\ sent = NoneSent
    /\ moves = 0
    /\ assigned = [i \in Conns |-> i]
    /\ prev = NoMove
    /\ last = [op |-> "init", ws |-> NoSender, payload |-> Undefined,
               cards0 |-> << >>, players0 |-> << >>, clients0 |-> {},
               open0 |-> {}, next0 |-> 1]
    /\ known = [c \in Conns |-> IF c = 1
                              THEN [has |-> TRUE, cards |-> cards,
                                    players |-> { players[q] : q \in DOMAIN players }]
                              ELSE NotHeard]

InitMoves == InitMovesFrom({DealA, DealC})

NextMoves ==
    \E ws \in Conns, payload \in MovePayloads : MakeMove(ws, payload)

SpecMoves == InitMoves /\ [][NextMoves]_vars

(***************************************************************************)
(* The same, from card lists of a game in which cards were moved off the   *)
(* middle of a pile.                                                       *)
(***************************************************************************)
InitLooseMoves == InitMovesFrom({DealC, DealE})

SpecLooseMoves == InitLooseMoves /\ [][NextMoves]_vars

(***************************************************************************)
(* The same, with clients that send only moves onto stacks of the game.    *)
(***************************************************************************)
NextStackMoves ==
    \E ws \in Conns, payload \in StackMovePayloads : MakeMove(ws, payload)

SpecStackMoves == InitMoves /\ [][NextStackMoves]_vars

(***************************************************************************)
(* The client's rule engine and deal (Rust, compiled to the GameApp the    *)
(* page calls).  A pile is the sequence of its cards from bottom to top.   *)
(***************************************************************************)
\* create_standard_deck(): one (suit, rank) pair of each combination
StandardDeck ==
    [i \in 1..(Len(DeckSuits) * Len(DeckRanks)) |->
        [suit |-> DeckSuits[((i - 1) \div Len(DeckRanks)) + 1],
         rank |-> DeckRanks[((i - 1) % Len(DeckRanks)) + 1]]]

DeckCards == { StandardDeck[i] : i \in 1..Len(StandardDeck) }

\* Hearts and Diamonds are red, Clubs and Spades are black
CardColor(suit) == IF suit \in {"Heart", "Diamond"} THEN "Red" ELSE "Black"

\* the top card is the last one
TopOf(pile) == pile[Len(pile)]

can_move_to_tableau(card, pile) ==
    IF pile = << >> THEN TRUE
    ELSE /\ RankValue(card.rank) + 1 = RankValue(TopOf(pile).rank)
         /\ CardColor(card.suit) # CardColor(TopOf(pile).suit)

\* any Ace starts any empty foundation
can_move_to_foundationAnyAce(card, slotSuit, pile) ==
    IF pile = << >> THEN card.rank = "Ace"
    ELSE /\ card.suit = slotSuit
         /\ RankValue(card.rank) = RankValue(TopOf(pile).rank) + 1

\* slotSuit is the suit of the foundation's slot
can_move_to_foundation(card, slotSuit, pile) ==
    IF pile = << >> THEN card.rank = "Ace" /\ card.suit = slotSuit
    ELSE /\ card.suit = slotSuit
         /\ RankValue(card.rank) = RankValue(TopOf(pile).rank) + 1

\* one card short counted as a win
check_win_conditionOffByOne(cs) ==
    Cardinality({ i \in 1..Len(cs) : cs[i].stack_type = "Foundation" }) >= Len(StandardDeck) - 1

\* all 52 cards are on Foundation piles
check_win_condition(cs) ==
    Cardinality({ i \in 1..Len(cs) : cs[i].stack_type = "Foundation" }) = Len(StandardDeck)

\* cards dealt to the Tableau piles before pile i: 0, 1, 3, 6, ...
DealtBefore(i) == (i * (i + 1)) \div 2

\* the Tableau pile the k-th card of the deck is dealt to
DealtPile(k) == CHOOSE i \in 0..(TableauCount - 1) : DealtBefore(i) < k /\ k <= DealtBefore(i + 1)

\* every Tableau card dealt face down
dealAllFaceDown(deck) ==
    [k \in 1..Len(deck) |->
        IF k <= DealtBefore(TableauCount)
        THEN Card(k, deck[k].suit, deck[k].rank, FALSE,
                  "Tableau", Num(DealtPile(k)), k - DealtBefore(DealtPile(k)) - 1)
        ELSE Card(k, deck[k].suit, deck[k].rank, FALSE,
                  "Stock", Null, k - DealtBefore(TableauCount) - 1)]

\* deal(deck): pile i gets i+1 cards, the last one face up; the rest goes to
\* Stock in order, face down
deal(deck) ==
    [k \in 1..Len(deck) |->
        IF k <= DealtBefore(TableauCount)
        THEN Card(k, deck[k].suit, deck[k].rank,
                  k = DealtBefore(DealtPile(k) + 1),
                  "Tableau", Num(DealtPile(k)), k - DealtBefore(DealtPile(k)) - 1)
        ELSE Card(k, deck[k].suit, deck[k].rank, FALSE,
                  "Stock", Null, k - DealtBefore(TableauCount) - 1)]

(***************************************************************************)
(* Calls of the rule engine and of deal, each on inputs drawn from the     *)
(* decks, piles and tables of a game.  call holds the last call: its       *)
(* inputs and what it returned.                                            *)
(***************************************************************************)
\* the decks dealt: the standard deck cut at any card, and each cut reversed
Cut(deck, k) == [i \in 1..Len(deck) |-> deck[((i + k - 1) % Len(deck)) + 1]]
Reversed(deck) == [i \in 1..Len(deck) |-> deck[Len(deck) + 1 - i]]
DealDecks ==
    { Cut(StandardDeck, k) : k \in 0..(Len(StandardDeck) - 1) }
        \cup { Reversed(Cut(StandardDeck, k)) : k \in 0..(Len(StandardDeck) - 1) }

CallDeal ==
    /\ call = NoCall
    /\ \E deck \in DealDecks :
          call' = [fn |-> "deal", deck |-> deck, cards |-> deal(deck)]
    /\ UNCHANGED <<serverVars, app, store>>

\* the foundation pile that holds the n lowest cards of a suit
FoundationPile(suit, n) == [k \in 1..n |-> [suit |-> suit, rank |-> DeckRanks[k]]]

\* the suits of the four foundation slots: each suit has one slot, and the
\* Ace of Spades goes on slot 0
SlotSuits ==
    { m \in [0..(FoundationCount - 1) -> { DeckSuits[s] : s \in 1..Len(DeckSuits) }] :
        /\ \A i, j \in 0..(FoundationCount - 1) : m[i] = m[j] => i = j
        /\ m[0] = "Spade" }

CallCanMoveToFoundation ==
    /\ call = NoCall
    /\ \E card \in DeckCards, slots \in SlotSuits,
          slot \in 0..(FoundationCount - 1), n \in 0..Len(DeckRanks) :
          LET pile == FoundationPile(slots[slot], n)
          IN  call' = [fn |-> "can_move_to_foundation", card |-> card,
                       slot |-> slot, slotSuit |-> slots[slot], pile |-> pile,
                       result |-> can_move_to_foundation(card, slots[slot], pile)]
    /\ UNCHANGED <<serverVars, app, store>>

\* the cards of a stack of the card list cs, from bottom to top
PileOf(cs, type, index) ==
    LET inStack == { i \in 1..Len(cs) :
                        cs[i].stack_type = type /\ cs[i].stack_index = index }
    IN  [k \in 1..Cardinality(inStack) |->
            cs[CHOOSE i \in inStack : cs[i].position_in_stack = k - 1]]

\* a table with the card `moved` face up on top of Tableau 0, beneath it
\* nothing, a face-down card or a face-up card, and on Tableau 1 nothing or the
\* face-up card `onTarget`
TableauTable(moved, beneath, onTarget) ==
    LET other == CHOOSE c \in DeckCards :
                    /\ c # moved
                    /\ c \notin onTarget
                    /\ c.rank = "King"
        under == IF beneath = "none" THEN << >>
                 ELSE <<Card(1, other.suit, other.rank, beneath = "up",
                             "Tableau", Num(0), 0)>>
        top == <<Card(2, moved.suit, moved.rank, TRUE, "Tableau", Num(0), Len(under))>>
        target == IF onTarget = {} THEN << >>
                  ELSE LET t == CHOOSE c \in onTarget : TRUE
                       IN  <<Card(3, t.suit, t.rank, TRUE, "Tableau", Num(1), 0)>>
    IN  under \o top \o target

\* the drop of the top card of Tableau 0 on Tableau 1: the rule is evaluated
\* and, if the move is legal, the move is made (the server relays it)
CallCanMoveToTableau ==
    /\ call = NoCall
    /\ \E moved \in DeckCards, beneath \in {"none", "down", "up"},
          onTarget \in { {} } \cup { {c} : c \in DeckCards } :
          /\ moved \notin onTarget
          /\ LET cs == TableauTable(moved, beneath, onTarget)
                 m == CHOOSE i \in 1..Len(cs) : cs[i].entity.id = 2
                 legal == can_move_to_tableau(cs[m], PileOf(cs, "Tableau", Num(1)))
                 payload == MakeMovePayload(Entity(Num(2)), Target("Tableau", Num(1)))
             IN  call' = [fn |-> "can_move_to_tableau", cards0 |-> cs,
                          result |-> legal,
                          cards |-> IF legal THEN MovedCards(cs, payload) ELSE cs]
    /\ UNCHANGED <<serverVars, app, store>>

\* the table of a won game: every card on the foundation of its suit, at the
\* position of its rank
WonTable(slots) ==
    [i \in 1..Len(StandardDeck) |->
        Card(i, StandardDeck[i].suit, StandardDeck[i].rank, TRUE, "Foundation",
             Num(CHOOSE s \in DOMAIN slots : slots[s] = StandardDeck[i].suit),
             RankValue(StandardDeck[i].rank) - 1)]

\* the card at index i of cs taken to an empty stack
TakenOut(cs, i, type, index) ==
    [cs EXCEPT ![i].stack_type = type, ![i].stack_index = index,
               ![i].position_in_stack = 0]

\* the tables check_win_condition is called on: a won game, a won game with
\* one card taken off its foundation, a game just dealt
WinTables ==
    { WonTable(slots) : slots \in SlotSuits }
        \cup { TakenOut(WonTable(slots), i, t[1], t[2]) :
                 slots \in SlotSuits, i \in 1..Len(StandardDeck),
                 t \in { <<"Waste", Null>>, <<"Stock", Null>>, <<"Tableau", Num(0)>> } }
        \cup { deal(StandardDeck) }

CallCheckWinCondition ==
    /\ call = NoCall
    /\ \E cs \in WinTables :
          call' = [fn |-> "check_win_condition", cards |-> cs,
                   result |-> check_win_condition(cs)]
    /\ UNCHANGED <<serverVars, app, store>>

\* the call returns to the page
Return ==
    /\ call # NoCall
    /\ call' = NoCall
    /\ UNCHANGED <<serverVars, app, store>>

NextRules ==
    \/ Return
    \/ CallDeal
    \/ CallCanMoveToFoundation
    \/ CallCanMoveToTableau
    \/ CallCheckWinCondition

SpecRules == Init /\ [][NextRules]_vars

(***************************************************************************)
(* The client's entity/component store (World).  comps holds one entry     *)
(* [kind, entity, value] for every component an entity has; op, entity and *)
(* comps0 record the last operation, its entity and the entries before it. *)
(***************************************************************************)
EntityIds == 0..(MaxEntities - 1)
ComponentKinds == {"Card", "StackInfo"}
ComponentValues == {"v1", "v2"}

World(kinds, entities, next, comps, op, entity, comps0) ==
    [kinds |-> kinds, entities |-> entities, next |-> next, comps |-> comps,
     op |-> op, entity |-> entity, comps0 |-> comps0]

\* World::new()
NewWorld ==
    /\ store = NoStore
    /\ store' = World({}, {}, 0, {}, "new", 0, {})
    /\ UNCHANGED <<serverVars, app, call>>

\* create_entity(): a fresh id
create_entity ==
    /\ store # NoStore
    /\ store.next \in EntityIds
    /\ store' = World(store.kinds, store.entities \cup {store.next}, store.next + 1,
                      store.comps, "create_entity", store.next, store.comps)
    /\ UNCHANGED <<serverVars, app, call>>

\* create_entity_with_id(id), with an id that is not in use
create_entity_with_id(id) ==
    /\ store # NoStore
    /\ id \notin store.entities
    /\ store' = World(store.kinds, store.entities \cup {id}, Max({store.next, id + 1}),
                      store.comps, "create_entity_with_id", id, store.comps)
    /\ UNCHANGED <<serverVars, app, call>>

\* register_component<T>()
register_component(T) ==
    /\ store # NoStore
    /\ T \notin store.kinds
    /\ store' = World(store.kinds \cup {T}, store.entities, store.next,
                      store.comps, "register_component", 0, store.comps)
    /\ UNCHANGED <<serverVars, app, call>>

\* add_component<T>(entity, value): inserts or overwrites; T is registered
add_component(T, entity, value) ==
    /\ store # NoStore
    /\ T \in store.kinds
    /\ entity \in store.entities
    /\ store' = World(store.kinds, store.entities, store.next,
                      { c \in store.comps : ~(c.kind = T /\ c.entity = entity) }
                          \cup { [kind |-> T, entity |-> entity, value |-> value] },
                      "add_component", entity, store.comps)
    /\ UNCHANGED <<serverVars, app, call>>

\* remove_component<T>(entity): no-op if absent
remove_component(T, entity) ==
    /\ store # NoStore
    /\ T \in store.kinds
    /\ store' = World(store.kinds, store.entities, store.next,
                      { c \in store.comps : ~(c.kind = T /\ c.entity = entity) },
                      "remove_component", entity, store.comps)
    /\ UNCHANGED <<serverVars, app, call>>

\* the entity removed from the entity set only
ComponentsKeptOnDestroy(comps, entity) == comps

\* destroy_entity: the entity's value removed from every storage
ComponentsAfterDestroy(comps, entity) == { c \in comps : c.entity # entity }

\* destroy_entity(entity)
destroy_entity(entity) ==
    /\ store # NoStore
    /\ entity \in store.entities
    /\ store' = World(store.kinds, store.entities \ {entity}, store.next,
                      ComponentsAfterDestroy(store.comps, entity),
                      "destroy_entity", entity, store.comps)
    /\ UNCHANGED <<serverVars, app, call>>

\* get_component<T>(entity) on the entries comps: the value, or empty
get_component(comps, T, entity) ==
    { c.value : c \in { d \in comps : d.kind = T /\ d.entity = entity } }

\* get_all_entities_with_component<T>() on the entries comps
get_all_entities_with_component(comps, T) ==
    { c.entity : c \in { d \in comps : d.kind = T } }

NextStore ==
    \/ NewWorld
    \/ create_entity
    \/ \E id \in EntityIds : create_entity_with_id(id)
    \/ \E T \in ComponentKinds : register_component(T)
    \/ \E T \in ComponentKinds, e \in EntityIds, v \in ComponentValues :
          add_component(T, e, v)
    \/ \E T \in ComponentKinds, e \in EntityIds : remove_component(T, e)
    \/ \E e \in EntityIds : destroy_entity(e)

SpecStore == Init /\ [][NextStore]_vars

(***************************************************************************)
(* The client page.  app holds the World's cards, the queue of received    *)
(* messages, the buttons, the drag state, and what the last handler did:   *)
(* its name, the World it started from, the messages it sent, the cards it *)
(* drew, its input (attempt) and, for updateStatusDisplay, the GameApp     *)
(* calls it made (tick).  Handlers run to completion, one at a time.       *)
(***************************************************************************)
\* let isDragging = false; draggedCardElement = null; draggedEntityId = null;
\* offsetX = 0; offsetY = 0; no document listener
NoDrag ==
    [isDragging |-> FALSE, draggedCardElement |-> Null, draggedEntityId |-> Null,
     offsetX |-> 0, offsetY |-> 0, listeners |-> {}]

\* no updateStatusDisplay run to describe
NoTick == [calls |-> << >>]

\* the disabled flags main() sets: connect enabled, join and deal disabled
Buttons(connectDisabled, joinDisabled, dealDisabled) ==
    [connectDisabled |-> connectDisabled, joinDisabled |-> joinDisabled,
     dealDisabled |-> dealDisabled]

\* the state a handler leaves: its name, its World, queue, sent messages,
\* drawn cards and input; buttons and drag state as they were
After(name, world, inbox, outbox, drawn, attempt) ==
    [app EXCEPT !.handler = name, !.world0 = app.world, !.world = world,
                !.inbox = inbox, !.outbox = outbox, !.drawn = drawn,
                !.attempt = attempt, !.tick = NoTick, !.drag0 = app.drag]

\* a card list of a game under way with the Ace of Spades on Foundation 0
DealD == MovedCards(DealA, MakeMovePayload(Entity(Num(1)), Target("Foundation", Num(0))))

\* messages of the server that reach the page
ServerMessages ==
    { GameStateUpdate(<< >>, DealC), GameStateUpdate(<< >>, DealD),
      PlayerJoined(Player(1)) }

\* main(): gameApp = new GameApp(), the buttons' first state, setInterval
LoadPage ==
    /\ app = NoApp
    /\ \E slots \in SlotSuits :
          app' = [page |-> "ready", slots |-> slots, world |-> << >>,
                  inbox |-> << >>, outbox |-> << >>, drawn |-> << >>,
                  handler |-> "main", world0 |-> << >>, attempt |-> << >>,
                  buttons |-> Buttons(FALSE, TRUE, TRUE), tick |-> NoTick,
                  drag |-> NoDrag, drag0 |-> NoDrag, interval |-> TRUE]
    /\ UNCHANGED <<serverVars, call, store>>

\* the socket's message callback: the message is queued
Receive(message) ==
    /\ app # NoApp
    /\ Len(app.inbox) < MaxInbox
    /\ app' = After("onmessage", app.world, Append(app.inbox, message), << >>,
                    << >>, << >>)
    /\ UNCHANGED <<serverVars, call, store>>

\* process_received_messages(): the World after the queued messages, the last
\* GameStateUpdate deciding its cards
RECURSIVE WorldAfter(_, _)
WorldAfter(world, inbox) ==
    IF inbox = << >> THEN world
    ELSE WorldAfter(IF Head(inbox).type = "GameStateUpdate"
                    THEN Head(inbox).cards ELSE world, Tail(inbox))

\* process_received_messages() returns whether the state changed
StateDidChange(inbox) ==
    \E i \in 1..Len(inbox) : inbox[i].type = "GameStateUpdate"

\* what get_connection_status_debug() returns
ConnectionStatuses == {"Connected", "Connecting", "Disconnected", "Error"}

\* the first try block of updateStatusDisplay: the buttons after a status
\* read; threw is "status" when get_connection_status_debug() threw, "display"
\* when a later statement of the block threw, "none" otherwise
ButtonsAfterStatusIgnoringFailure(status, threw) ==
    IF status = "Connected" THEN Buttons(TRUE, FALSE, FALSE)
    ELSE IF status = "Connecting" THEN Buttons(TRUE, TRUE, TRUE)
    ELSE Buttons(FALSE, TRUE, TRUE)

ButtonsAfterStatus(status, threw) ==
    IF threw # "none" THEN Buttons(TRUE, TRUE, TRUE)
    ELSE IF status = "Connected" THEN Buttons(TRUE, FALSE, FALSE)
    ELSE IF status = "Connecting" THEN Buttons(TRUE, TRUE, TRUE)
    ELSE Buttons(FALSE, TRUE, TRUE)

\* the GameApp calls of the first try block
StatusCalls(threw) ==
    IF threw = "status" THEN <<"get_connection_status_debug">>
    ELSE <<"get_connection_status_debug", "get_my_player_id_debug">>

\* the second try block with the renderer called before the queue is drained
DrainCallsRenderingFirst(drained, changed) ==
    IF changed THEN <<"render_game_rust", "process_received_messages">>
    ELSE <<"process_received_messages">>

\* the GameApp calls of the second try block: drained is "returned" or "threw"
DrainCalls(drained, changed) ==
    IF drained = "returned" /\ changed
    THEN <<"process_received_messages", "render_game_rust">>
    ELSE <<"process_received_messages">>

\* updateStatusDisplay(), every second.  status is what the status read
\* returns, threw tells where the first try block threw; drained tells whether
\* process_received_messages() returned or threw after handling the first k
\* queued messages; rendered tells whether render_game_rust() returned
updateStatusDisplay(status, threw, drained, k, rendered) ==
    /\ app # NoApp
    /\ app.interval
    /\ k \in 0..Len(app.inbox)
    /\ drained = "returned" => k = Len(app.inbox)
    /\ threw = "status" => status = "Disconnected"
    /\ (rendered = FALSE) => (drained = "returned" /\ StateDidChange(app.inbox))
    /\ LET handled == SubSeq(app.inbox, 1, k)
           world == WorldAfter(app.world, handled)
           changed == StateDidChange(handled)
           calls == DrainCalls(drained, changed)
           drew == /\ Len(calls) = 2
                   /\ rendered
       IN  app' = [After("updateStatusDisplay", world,
                         SubSeq(app.inbox, k + 1, Len(app.inbox)), << >>,
                         IF drew THEN <<world>> ELSE << >>,
                         <<threw, drained, rendered>>)
                     EXCEPT !.buttons = ButtonsAfterStatus(status, threw),
                            !.tick = [calls |-> StatusCalls(threw) \o calls,
                                      status |-> IF threw = "status"
                                                 THEN "Disconnected" ELSE status,
                                      changed |-> changed]]
    /\ UNCHANGED <<serverVars, call, store>>

\* the deal button (it answers clicks while it is not disabled):
\* deal_initial_cards(), then render_game_rust()
DealClick ==
    /\ app # NoApp
    /\ ~app.buttons.dealDisabled
    /\ \E cs \in {DealA, DealB} :
          app' = After("dealButton", cs, app.inbox,
                       <<[type |-> "ProvideInitialState",
                          payload |-> InitialStatePayload(Arr(cs))]>>,
                       <<cs>>, << >>)
    /\ UNCHANGED <<serverVars, call, store>>

\* the state button also changing the World
GetStateClickClearingWorld ==
    /\ app # NoApp
    /\ app' = After("getStateButton", << >>, app.inbox, << >>, <<app.world>>, << >>)
    /\ UNCHANGED <<serverVars, call, store>>

\* the state button: get_world_state_json(), then render_game_rust()
GetStateClick ==
    /\ app # NoApp
    /\ app' = After("getStateButton", app.world, app.inbox, << >>, <<app.world>>, << >>)
    /\ UNCHANGED <<serverVars, call, store>>

\* card i of the World lies above every other card of its stack
OnTop(world, i) ==
    \A j \in 1..Len(world) \ {i} :
        (world[j].stack_type = world[i].stack_type
            /\ world[j].stack_index = world[i].stack_index)
                => world[j].position_in_stack < world[i].position_in_stack

\* the rule check of a move of the card with entity id `id` onto the stack
\* (type, index): the card is face up and on top of its stack, and the rule of
\* the target stack allows it
MoveIsLegal(world, slots, id, type, index) ==
    LET i == FindIndex({ k \in 1..Len(world) : world[k].entity.id = id })
    IN  /\ i # 0
        /\ world[i].is_face_up
        /\ OnTop(world, i)
        /\ ~(world[i].stack_type = type /\ world[i].stack_index = Num(index))
        /\ IF type = "Foundation"
           THEN can_move_to_foundation(world[i], slots[index],
                                       PileOf(world, "Foundation", Num(index)))
           ELSE IF type = "Tableau"
                THEN can_move_to_tableau(world[i], PileOf(world, "Tableau", Num(index)))
                ELSE FALSE

\* the MakeMove message of the client
MakeMoveMessage(id, type, index) ==
    [type |-> "MakeMove",
     payload |-> MakeMovePayload(Entity(Num(id)), Target(type, Num(index)))]

\* find_automatic_foundation_move: the foundations the card may go on
AutomaticFoundations(world, slots, id) ==
    { f \in 0..(FoundationCount - 1) : MoveIsLegal(world, slots, id, "Foundation", f) }

\* the canvas dblclick handler: handle_double_click(id) for the card under the
\* pointer (id 0: no card there); the move to the first foundation found is sent
DblClick(id) ==
    /\ app # NoApp
    /\ LET found == AutomaticFoundations(app.world, app.slots, id)
       IN  app' = After("dblclick", app.world, app.inbox,
                        IF id = 0 \/ found = {} THEN << >>
                        ELSE <<MakeMoveMessage(id, "Foundation", Min(found))>>,
                        << >>, <<id>>)
    /\ UNCHANGED <<serverVars, call, store>>

\* where a pointer can be inside a card when the button goes down
Offsets == { <<1, 2>> }

\* handleMouseDown(event, cardData, cardElement) on the element of card i:
\* a drag starts on a face-up card that is not on Stock
handleMouseDown(i, offset) ==
    /\ app # NoApp
    /\ i \in 1..Len(app.world)
    /\ LET cardData == app.world[i]
           started == cardData.is_face_up /\ cardData.stack_type # "Stock"
       IN  app' = [After("mousedown", app.world, app.inbox, << >>, << >>,
                         <<cardData.entity.id>>)
                     EXCEPT !.drag =
                         IF started
                         THEN [isDragging |-> TRUE,
                               draggedCardElement |-> Num(cardData.entity.id),
                               draggedEntityId |-> Num(cardData.entity.id),
                               offsetX |-> offset[1], offsetY |-> offset[2],
                               listeners |-> app.drag.listeners
                                                \cup {"mousemove", "mouseup"}]
                         ELSE app.drag]
    /\ UNCHANGED <<serverVars, call, store>>

\* the stacks findDropTargetStack tells apart
DropTargets ==
    { <<"Foundation", i>> : i \in 0..(FoundationCount - 1) }
        \cup { <<"Tableau", i>> : i \in 0..(TableauCount - 1) }

\* findDropTargetStack returned null
Outside == <<"outside", 0>>

\* the drag state reset only when a drop target was found
handleMouseUpKeepingDragOutside(zone, sendThrows) ==
    /\ app # NoApp
    /\ "mouseup" \in app.drag.listeners
    /\ app.drag.isDragging /\ app.drag.draggedCardElement # Null
    /\ app' = [After("mouseup", app.world, app.inbox,
                     IF zone # Outside /\ app.drag.draggedEntityId # Null /\ ~sendThrows
                     THEN <<MakeMoveMessage(app.drag.draggedEntityId[2], zone[1], zone[2])>>
                     ELSE << >>,
                     << >>, <<zone, sendThrows>>)
                 EXCEPT !.drag = IF zone = Outside
                                 THEN [app.drag EXCEPT !.listeners = {}]
                                 ELSE NoDrag]
    /\ UNCHANGED <<serverVars, call, store>>

\* handleMouseUp(event), the document's mouseup listener while a drag is on:
\* zone is what findDropTargetStack returns for the release point, sendThrows
\* tells whether gameApp.send_make_move threw
handleMouseUp(zone, sendThrows) ==
    /\ app # NoApp
    /\ "mouseup" \in app.drag.listeners
    /\ app.drag.isDragging /\ app.drag.draggedCardElement # Null
    /\ app' = [After("mouseup", app.world, app.inbox,
                     IF zone # Outside /\ app.drag.draggedEntityId # Null /\ ~sendThrows
                     THEN <<MakeMoveMessage(app.drag.draggedEntityId[2], zone[1], zone[2])>>
                     ELSE << >>,
                     << >>, <<zone, sendThrows>>)
                 EXCEPT !.drag = NoDrag]
    /\ UNCHANGED <<serverVars, call, store>>

(***************************************************************************)
(* The page while no GameApp call fails: every handler of the page, the    *)
(* periodic loop finding the connection up.                                *)
(***************************************************************************)
NextClient ==
    \/ LoadPage
    \/ \E message \in { GameStateUpdate(<< >>, DealD), PlayerJoined(Player(1)) } :
          Receive(message)
    \/ updateStatusDisplay("Connected", "none", "returned", Len(app.inbox), TRUE)
    \/ DealClick
    \/ GetStateClick
    \/ \E id \in 0..Len(DealA) : DblClick(id)
    \/ \E i \in 1..Len(DealA), offset \in Offsets : handleMouseDown(i, offset)
    \/ \E zone \in DropTargets \cup {Outside}, sendThrows \in BOOLEAN :
          handleMouseUp(zone, sendThrows)

SpecClient == Init /\ [][NextClient]_vars

(***************************************************************************)
(* The periodic loop under every outcome of its GameApp calls, with the    *)
(* messages arriving and the deal button between its runs.                 *)
(***************************************************************************)
NextTicks ==
    \/ LoadPage
    \/ \E message \in ServerMessages : Receive(message)
    \/ \E status \in ConnectionStatuses, threw \in {"none", "status", "display"},
          drained \in {"returned", "threw"}, k \in 0..MaxInbox, rendered \in BOOLEAN :
          updateStatusDisplay(status, threw, drained, k, rendered)
    \/ DealClick

SpecTicks == Init /\ [][NextTicks]_vars

(***************************************************************************)
(* What the last callback did, read from last and the current state.       *)
(***************************************************************************)
\* the last callback handled a ProvideInitialState whose payload carries cards
ProvidedInitialState ==
    /\ last.op = "ProvideInitialState"
    /\ ProvidedCards(last.payload) # Undefined

\* the last callback applied a MakeMove (it reached steps 2-5)
AppliedMove ==
    /\ last.op = "MakeMove"
    /\ MoveOutcome(last.cards0, last.payload) = "applied"

\* the last callback handled a MakeMove and dropped it
DroppedMove ==
    /\ last.op = "MakeMove"
    /\ MoveOutcome(last.cards0, last.payload) # "applied"

\* index of the card the last MakeMove moved, and the submitted target stack
MovedIndex == MovedCardIndex(last.cards0, MovedEntityOf(last.payload))
TargetType == TargetStackOf(last.payload)[2]
TargetIndex == TargetStackOf(last.payload)[3]

\* every connection that was registered and open when the last callback ran
\* got exactly the message, and nobody else got anything
SentToAllOpen(message) ==
    \A c \in Conns : sent[c] = IF c \in last.open0 THEN <<message>> ELSE << >>

\* indices of the cards of cs in the stack (type, index)
InStack(cs, type, index) ==
    { i \in 1..Len(cs) : cs[i].stack_type = type /\ cs[i].stack_index = index }

(***************************************************************************)
(* C1.  A ProvideInitialState that carries cards is stored and broadcast   *)
(* as a GameStateUpdate to every open connection, the sender included, if  *)
(* and only if the server's card list was empty when it was handled; when  *)
(* the list was not empty neither cards nor players change and nothing is  *)
(* sent to anyone.                                                         *)
(***************************************************************************)
C1_InitialStateOnlyWhenEmpty ==
    ProvidedInitialState =>
        LET provided == ProvidedCards(last.payload)[2]
            stored == cards = provided
            broadcast == SentToAllOpen(GameStateUpdate(players, provided))
        IN  /\ (stored /\ broadcast) <=> (Len(last.cards0) = 0)
            /\ Len(last.cards0) # 0 =>
                  /\ cards = last.cards0
                  /\ players = last.players0
                  /\ sent = NoneSent

\* a deal accepted while two connections are open: both get the update
C1_Witness ==
    /\ ProvidedInitialState
    /\ Len(last.cards0) = 0
    /\ Len(cards) > 0
    /\ Cardinality(last.open0) >= 2
    /\ sent[last.ws] = <<GameStateUpdate(players, cards)>>

(***************************************************************************)
(* C2.  After an applied MakeMove the moved card is in the submitted       *)
(* target stack, its position_in_stack is one more than the highest        *)
(* position among the other cards of that stack (0 when there is none),    *)
(* and it lies above every other card of the stack; also when the target   *)
(* is the card's own stack.                                                *)
(***************************************************************************)
C2_MovedCardOnTop ==
    AppliedMove =>
        LET movedCard == cards[MovedIndex]
            others == InStack(cards, TargetType, TargetIndex) \ {MovedIndex}
        IN  /\ movedCard.stack_type = TargetType
            /\ movedCard.stack_index = TargetIndex
            /\ movedCard.position_in_stack =
                  IF others = {} THEN 0
                  ELSE Max({ cards[i].position_in_stack : i \in others }) + 1
            /\ \A i \in others :
                  cards[i].position_in_stack < movedCard.position_in_stack

\* a card moved onto its own stack, which holds another card
C2_Witness ==
    /\ AppliedMove
    /\ last.cards0[MovedIndex].stack_type = TargetType
    /\ last.cards0[MovedIndex].stack_index = TargetIndex
    /\ InStack(cards, TargetType, TargetIndex) \ {MovedIndex} # {}

(***************************************************************************)
(* Stacks.  Two cards are in the same stack when stack_type and            *)
(* stack_index are equal, as the server compares them (===).               *)
(***************************************************************************)
SameStack(a, b) == a.stack_type = b.stack_type /\ a.stack_index = b.stack_index

\* card i lies above every other card of its stack
IsTop(cs, i) ==
    \A j \in 1..Len(cs) \ {i} :
        SameStack(cs[j], cs[i]) => cs[j].position_in_stack < cs[i].position_in_stack

\* within every stack the positions are 0..count-1, each once
PositionsArePermutations(cs) ==
    \A i \in 1..Len(cs) :
        LET stack == { j \in 1..Len(cs) : SameStack(cs[j], cs[i]) }
        IN  /\ { cs[j].position_in_stack : j \in stack } = 0..(Cardinality(stack) - 1)
            /\ \A j, k \in stack :
                  cs[j].position_in_stack = cs[k].position_in_stack => j = k

\* the cards of the four stacks are the deck, every (suit, rank) once
IsDeck(cs) ==
    \A s \in Suits, r \in Ranks :
        Cardinality({ i \in 1..Len(cs) : /\ cs[i].stack_type \in StackTypes
                                         /\ cs[i].suit = s
                                         /\ cs[i].rank = r }) = 1

\* the card the last MakeMove moved, as it was before the move
OldCard == last.cards0[MovedIndex]

\* the last MakeMove moved the top card of its stack
MovedTopCard == IsTop(last.cards0, MovedIndex)

\* the last MakeMove's target is another stack than the card's own
MovedToOtherStack ==
    ~(OldCard.stack_type = TargetType /\ OldCard.stack_index = TargetIndex)

\* the cards the last callback turned face up
Flipped ==
    { i \in 1..Len(cards) : ~last.cards0[i].is_face_up /\ cards[i].is_face_up }

\* the cards that lay directly beneath the moved card before the move
Beneath ==
    { i \in 1..Len(last.cards0) \ {MovedIndex} :
        /\ SameStack(last.cards0[i], OldCard)
        /\ last.cards0[i].position_in_stack = OldCard.position_in_stack - 1 }

(***************************************************************************)
(* C3 as stated, refuted.  From a card list whose stacks hold the positions         *)
(* 0..count-1, every sequence of MakeMove messages leaves the positions of *)
(* every stack a permutation of 0..count-1.                                *)
(***************************************************************************)
C3_AnyMovesKeepPermutations == PositionsArePermutations(cards)

(***************************************************************************)
(* C3 as amended.  A MakeMove that moves the top card of its stack keeps   *)
(* the positions of every stack a permutation of 0..count-1; so they stay  *)
(* one after every sequence of such moves.                                 *)
(***************************************************************************)
C3_TopCardMovesKeepPermutations ==
    (AppliedMove /\ PositionsArePermutations(last.cards0) /\ MovedTopCard)
        => PositionsArePermutations(cards)

\* the second of two moves of a top card, onto a stack that holds a card
C3_Witness ==
    /\ AppliedMove
    /\ moves >= 2
    /\ PositionsArePermutations(last.cards0)
    /\ MovedTopCard
    /\ MovedToOtherStack
    /\ cards[MovedIndex].position_in_stack > 0

(***************************************************************************)
(* C4 as stated, refuted.  Once the server holds cards, the cards of its Tableau,   *)
(* Foundation, Stock and Waste stacks are exactly the deck, after any      *)
(* sequence of ProvideInitialState and MakeMove messages.                  *)
(***************************************************************************)
C4_AlwaysTheDeck == Len(cards) > 0 => IsDeck(cards)

(***************************************************************************)
(* The part of C4 the handlers keep: when the cards of the four stacks are *)
(* exactly the deck, they still are after a ProvideInitialState and after  *)
(* a MakeMove whose target names one of the four stack types.              *)
(***************************************************************************)
C4_DeckKeptByMovesToStacks ==
    ( /\ last.op \in {"ProvideInitialState", "MakeMove"}
      /\ IsDeck(last.cards0)
      /\ AppliedMove => TargetType \in StackTypes )
        => IsDeck(cards)

(***************************************************************************)
(* C5.  When an applied MakeMove takes a card from a Tableau pile and a    *)
(* card lay directly beneath it, that card is face up after the move, and  *)
(* unchanged if it was face up before; when the source was not a Tableau   *)
(* pile or the moved card was at position 0, no card's is_face_up changes. *)
(***************************************************************************)
C5_BeneathCardRevealed ==
    AppliedMove =>
        /\ OldCard.stack_type = "Tableau" =>
              \A i \in Beneath :
                  /\ cards[i].is_face_up
                  /\ last.cards0[i].is_face_up => cards[i] = last.cards0[i]
        /\ (OldCard.stack_type # "Tableau" \/ OldCard.position_in_stack = 0) =>
              \A i \in 1..Len(cards) :
                  cards[i].is_face_up = last.cards0[i].is_face_up

\* a face-down card beneath the moved Tableau card has been turned face up
C5_Witness ==
    /\ AppliedMove
    /\ OldCard.stack_type = "Tableau"
    /\ \E i \in Beneath : ~last.cards0[i].is_face_up /\ cards[i].is_face_up

C7_MoveIsBroadcast ==
    AppliedMove =>
        /\ last.ws \in last.open0
        /\ \A c \in last.open0 :
              /\ Len(sent[c]) = 1
              /\ sent[c][1].type = "GameStateUpdate"
              /\ sent[c][1].cards = cards
              /\ Len(sent[c][1].players) = Cardinality(DOMAIN players)
              /\ \A p \in DOMAIN players :
                    \E k \in 1..Len(sent[c][1].players) : sent[c][1].players[k] = players[p]

\* a move applied while two connections are open changed the cards
C7_Witness ==
    /\ AppliedMove
    /\ Cardinality(last.open0) >= 2
    /\ cards # last.cards0

\* the payload check of MakeMove fails
LacksFields(payload) ==
    \/ MovedEntityOf(payload) = Undefined
    \/ TargetStackOf(payload) = Undefined
    \/ /\ MovedEntityOf(payload) # Null
       /\ MovedEntityOf(payload)[2] = Undefined

\* the payload passes the check and its entity id matches no card of cs
MatchesNoCard(cs, payload) ==
    /\ ~LacksFields(payload)
    /\ MovedEntityOf(payload) # Null
    /\ \A i \in 1..Len(cs) : Num(cs[i].entity.id) # MovedEntityOf(payload)[2]

(***************************************************************************)
(* C8.  A MakeMove whose payload lacks moved_entity, moved_entity.id or    *)
(* target_stack, or whose entity id matches no card, changes neither cards *)
(* nor players and sends nothing to anyone.                                *)
(***************************************************************************)
C8_BadMoveDroppedSilently ==
    ( /\ last.op = "MakeMove"
      /\ LacksFields(last.payload) \/ MatchesNoCard(last.cards0, last.payload) )
        => /\ cards = last.cards0
           /\ players = last.players0
           /\ sent = NoneSent

\* a move for an entity no card has, with a target stack, while cards are held
C8_Witness ==
    /\ last.op = "MakeMove"
    /\ MatchesNoCard(last.cards0, last.payload)
    /\ TargetStackOf(last.payload) # Null
    /\ Len(last.cards0) > 0
    /\ last.open0 # {}

(***************************************************************************)
(* C9.  Every player id the server assigns is greater than every id it     *)
(* assigned before, whatever connections closed in between: no id is       *)
(* assigned twice, and the id of a closed connection is not assigned again.*)
(***************************************************************************)
C9_PlayerIdsIncrease ==
    /\ \A i, j \in 1..Len(assigned) : i < j => assigned[i] < assigned[j]
    /\ \A c \in clients : \E i \in 1..Len(assigned) : assigned[i] = c
    /\ last.op = "connection" =>
          /\ assigned[Len(assigned)] = last.ws
          /\ last.ws \notin last.clients0

\* a connection made after the first connection has closed
C9_Witness ==
    /\ last.op = "connection"
    /\ Len(assigned) >= 2
    /\ assigned[1] \notin last.clients0

(***************************************************************************)
(* C10.  A connecting player is registered in the player list; its         *)
(* connection gets exactly one message, a GameJoined with its id, every    *)
(* registered player (itself included) and the current cards; every other  *)
(* open connection gets one PlayerJoined naming it, and nobody else gets   *)
(* anything.                                                               *)
(***************************************************************************)
C10_JoinAnnounced ==
    last.op = "connection" =>
        LET joiner == last.ws
        IN  /\ joiner \in DOMAIN players
            /\ players[joiner].id = joiner
            /\ Len(sent[joiner]) = 1
            /\ sent[joiner][1].type = "GameJoined"
            /\ sent[joiner][1].playerId = joiner
            /\ sent[joiner][1].cards = cards
            /\ Len(sent[joiner][1].players) = Cardinality(DOMAIN players)
            /\ \A p \in DOMAIN players :
                  \E k \in 1..Len(sent[joiner][1].players) :
                      sent[joiner][1].players[k] = players[p]
            /\ \A c \in Conns \ {joiner} :
                  IF c \in last.open0
                  THEN /\ Len(sent[c]) = 1
                       /\ sent[c][1].type = "PlayerJoined"
                       /\ sent[c][1].player = players[joiner]
                  ELSE sent[c] = << >>

\* a player joined a game under way while another connection was open
C10_Witness ==
    /\ last.op = "connection"
    /\ last.open0 # {}
    /\ Len(cards) > 0
    /\ Cardinality(DOMAIN players) >= 2

(***************************************************************************)
(* C11 as stated, refuted.  A JoinGame message with a player name is       *)
(* answered with a GameJoined to its sender, carrying the sender's player  *)
(* id, all players and all cards, and a PlayerJoined with that id and the  *)
(* submitted name goes to every other open connection.                     *)
(***************************************************************************)
C11_JoinGameAnswered ==
    (last.op = "unknown" /\ last.payload[1] = "JoinGame")
        => /\ sent[last.ws] = <<GameJoined(last.ws, players, cards)>>
           /\ \A c \in last.open0 \ {last.ws} :
                 sent[c] = <<[type |-> "PlayerJoined",
                              player |-> [id |-> last.ws, name |-> last.payload[2][2]]]>>

\* the player ids assigned to connections that have closed since
LeftPlayers == {assigned[i] : i \in 1..Len(assigned)} \ clients

(***************************************************************************)
(* C12.  The close callback removes the closing connection's player from   *)
(* players and the connection from clients, and sends exactly one          *)
(* PlayerLeft with that id to every connection still registered and open   *)
(* and nothing to anyone else; no GameJoined or GameStateUpdate sent       *)
(* later lists a player whose connection has closed.                       *)
(***************************************************************************)
C12_ClosedPlayerGone ==
    /\ last.op = "close"
          => /\ last.ws \notin DOMAIN players
             /\ last.ws \notin clients
             /\ clients = last.clients0 \ {last.ws}
             /\ \A p \in DOMAIN players : players[p] = last.players0[p]
             /\ \A c \in Conns :
                   sent[c] = IF c \in clients /\ readyState[c] = "OPEN"
                             THEN <<[type |-> "PlayerLeft", playerId |-> last.ws]>>
                             ELSE << >>
    /\ \A c \in Conns : \A i \in 1..Len(sent[c]) :
          sent[c][i].type \in {"GameJoined", "GameStateUpdate"}
              => \A j \in DOMAIN sent[c][i].players :
                    sent[c][i].players[j].id \notin LeftPlayers

\* a connection closed while another one, still open, was there to be told
C12_Witness ==
    /\ last.op = "close"
    /\ last.ws \in DOMAIN last.players0
    /\ \E c \in clients : sent[c] # << >>

(***************************************************************************)
(* C13.  A Ping is answered with exactly one Pong to the connection that   *)
(* sent it and nothing to any other connection, whatever cards and players *)
(* the server holds, and leaves cards and players as they were.            *)
(***************************************************************************)
C13_PingAnswered ==
    last.op = "Ping"
        => /\ \A c \in Conns :
                 sent[c] = IF c = last.ws THEN <<[type |-> "Pong"]>> ELSE << >>
           /\ cards = last.cards0
           /\ players = last.players0

\* a Ping in mid-game with another connection open
C13_Witness ==
    /\ last.op = "Ping"
    /\ moves > 0
    /\ Cardinality(last.open0) >= 2

(***************************************************************************)
(* C14.  A RequestGameState makes the server send one GameStateUpdate with *)
(* its current players and cards to the requester and nothing to any other *)
(* connection, and leaves cards and players as they were.                  *)
(***************************************************************************)
C14_StateToRequesterOnly ==
    last.op = "RequestGameState"
        => /\ \A c \in Conns :
                 sent[c] = IF c = last.ws
                           THEN <<[type |-> "GameStateUpdate",
                                   players |-> PlayerList(players), cards |-> cards]>>
                           ELSE << >>
           /\ cards = last.cards0
           /\ players = last.players0

\* a request while cards are held and another connection is open
C14_Witness ==
    /\ last.op = "RequestGameState"
    /\ Len(cards) > 0
    /\ Cardinality(last.open0) >= 2

(***************************************************************************)
(* C15.  A message that is not parseable JSON, or whose type the switch    *)
(* does not know, leaves cards and players as they were, leaves its sender *)
(* registered and open, and sends nothing to any other connection and to   *)
(* the sender nothing or one Error message.                                *)
(***************************************************************************)
C15_BadMessageIgnored ==
    last.op \in {"unknown", "unparseable"}
        => /\ cards = last.cards0
           /\ players = last.players0
           /\ clients = last.clients0
           /\ last.ws \in clients
           /\ readyState[last.ws] = "OPEN"
           /\ \A c \in Conns \ {last.ws} : sent[c] = << >>
           /\ \/ sent[last.ws] = << >>
              \/ /\ Len(sent[last.ws]) = 1
                 /\ sent[last.ws][1].type = "Error"

\* an unparseable message while cards are held and another connection is open
C15_Witness ==
    /\ last.op = "unparseable"
    /\ Len(cards) > 0
    /\ Cardinality(last.open0) >= 2

\* the last two callbacks applied MakeMove messages of two connections for
\* the same card with different target stacks
ConflictingMoves ==
    /\ AppliedMove
    /\ prev # NoMove
    /\ prev.ws # last.ws
    /\ MovedEntityOf(prev.payload) = MovedEntityOf(last.payload)
    /\ TargetStackOf(prev.payload) # TargetStackOf(last.payload)

(***************************************************************************)
(* C16.  When two connections each send a MakeMove for the same card with  *)
(* different targets, both are applied in arrival order: the first had put *)
(* the card on its target, the second puts it on its own target, where it  *)
(* stays, and is broadcast like any move; the final card list is the one   *)
(* obtained by applying the two moves in their order of arrival.           *)
(***************************************************************************)
C16_LastWriteWins ==
    ConflictingMoves
        => /\ last.cards0[MovedIndex].stack_type = TargetStackOf(prev.payload)[2]
           /\ last.cards0[MovedIndex].stack_index = TargetStackOf(prev.payload)[3]
           /\ cards[MovedIndex].stack_type = TargetType
           /\ cards[MovedIndex].stack_index = TargetIndex
           /\ cards = MovedCards(MovedCards(prev.cards0, prev.payload), last.payload)
           /\ SentToAllOpen([type |-> "GameStateUpdate",
                             players |-> PlayerList(players), cards |-> cards])

\* two conflicting moves whose other order of arrival gives another card list
C16_Witness ==
    /\ ConflictingMoves
    /\ Cardinality(last.open0) >= 2
    /\ MovedCards(MovedCards(prev.cards0, last.payload), prev.payload) # cards

\* the callbacks that write gameState
WritingCallbacks == {"connection", "close", "ProvideInitialState", "MakeMove"}

(***************************************************************************)
(* C17.  Cards and players change only in the connection, message and      *)
(* close callbacks, and a callback runs to its end before anything is      *)
(* sent or another one starts: every GameJoined and GameStateUpdate        *)
(* carries the players and cards the server holds when the callback that   *)
(* sent it has ended, and after an applied MakeMove these show the moved   *)
(* card on its target stack with its new position_in_stack.                *)
(***************************************************************************)
C17_UpdatesShowWholeRuns ==
    /\ (cards # last.cards0 \/ players # last.players0)
          => last.op \in WritingCallbacks
    /\ \A c \in Conns : \A i \in 1..Len(sent[c]) :
          sent[c][i].type \in {"GameJoined", "GameStateUpdate"}
              => /\ sent[c][i].cards = cards
                 /\ sent[c][i].players = PlayerList(players)
    /\ AppliedMove
          => /\ cards[MovedIndex].stack_type = TargetType
             /\ cards[MovedIndex].stack_index = TargetIndex
             /\ cards[MovedIndex].position_in_stack =
                  NewPositionInStack(last.cards0, OldCard, TargetType, TargetIndex)

\* an update sent for a move that changed both the stack and the position
C17_Witness ==
    /\ AppliedMove
    /\ MovedToOtherStack
    /\ cards[MovedIndex].position_in_stack # OldCard.position_in_stack
    /\ \E c \in Conns : sent[c] # << >>

(***************************************************************************)
(* C18 as stated, refuted.  Every card the server holds is on Stock, on    *)
(* Waste, on a Foundation pile 0..3 or on a Tableau pile 0..6, whatever    *)
(* target_stack the MakeMove messages carried.                             *)
(***************************************************************************)
C18_CardsStayInStacks ==
    \A i \in 1..Len(cards) :
        /\ cards[i].stack_type \in StackTypes
        /\ cards[i].stack_type = "Foundation"
              => cards[i].stack_index \in {Num(k) : k \in 0..(FoundationCount - 1)}
        /\ cards[i].stack_type = "Tableau"
              => cards[i].stack_index \in {Num(k) : k \in 0..(TableauCount - 1)}

\* the cards of cs on Foundation pile index, the card at i left out
OthersOnFoundation(cs, i, index) == InStack(cs, "Foundation", index) \ {i}

\* card i of cs is directly above the top of Foundation pile index: an Ace
\* when no other card is there, else the next rank of the top card's suit
DirectlyAboveTop(cs, i, index) ==
    LET others == OthersOnFoundation(cs, i, index)
    IN  IF others = {}
        THEN cs[i].rank = "Ace"
        ELSE \E t \in others :
                /\ \A o \in others : cs[o].position_in_stack <= cs[t].position_in_stack
                /\ cs[i].suit = cs[t].suit
                /\ RankValue(cs[i].rank) = RankValue(cs[t].rank) + 1

\* every Foundation pile of cs is one suit in ascending order from the Ace
FoundationOrdered(cs) ==
    \A k \in 0..(FoundationCount - 1) :
        LET pile == InStack(cs, "Foundation", Num(k))
        IN  /\ \A i \in pile : RankValue(cs[i].rank) = cs[i].position_in_stack + 1
            /\ \A i, j \in pile :
                  /\ cs[i].suit = cs[j].suit
                  /\ i # j => cs[i].position_in_stack # cs[j].position_in_stack

(***************************************************************************)
(* C19 as stated, refuted.  A card that a MakeMove puts on a Foundation    *)
(* pile is directly above the pile's top card in the same suit, an Ace     *)
(* when the pile is empty.                                                 *)
(***************************************************************************)
C19_FoundationReceivesNextRank ==
    (AppliedMove /\ TargetType = "Foundation")
        => DirectlyAboveTop(last.cards0, MovedIndex, TargetIndex)

(***************************************************************************)
(* C19 as amended.  The server puts the card a MakeMove names on top of    *)
(* the Foundation pile it names whatever the card is.  When the Foundation *)
(* piles were same-suit runs ascending from the Ace, they still are after  *)
(* a MakeMove that moves the top card of its stack and, if its target is a *)
(* Foundation pile, names a card directly above that pile's top.           *)
(***************************************************************************)
C19_LegalMovesKeepFoundations ==
    /\ (AppliedMove /\ TargetType = "Foundation")
          => /\ cards[MovedIndex].stack_type = "Foundation"
             /\ cards[MovedIndex].stack_index = TargetIndex
             /\ IsTop(cards, MovedIndex)
    /\ ( /\ AppliedMove
         /\ FoundationOrdered(last.cards0)
         /\ MovedTopCard
         /\ TargetType = "Foundation"
               => DirectlyAboveTop(last.cards0, MovedIndex, TargetIndex) )
          => FoundationOrdered(cards)

\* the Two of a suit put on its Ace, which lay alone on the Foundation pile
C19_Witness ==
    /\ AppliedMove
    /\ TargetType = "Foundation"
    /\ MovedTopCard
    /\ OldCard.stack_type # "Foundation"
    /\ OthersOnFoundation(last.cards0, MovedIndex, TargetIndex) # {}
    /\ FoundationOrdered(last.cards0)
    /\ DirectlyAboveTop(last.cards0, MovedIndex, TargetIndex)

(***************************************************************************)
(* C20 as stated, refuted.  After the server has applied the move of the   *)
(* top Stock card to Waste, the card is the top card of Waste and is face  *)
(* up in the server's cards and in the GameStateUpdate every open          *)
(* connection gets.                                                        *)
(***************************************************************************)
C20_DealtCardFaceUp ==
    ( /\ AppliedMove
      /\ OldCard.stack_type = "Stock"
      /\ MovedTopCard
      /\ TargetType = "Waste"
      /\ TargetIndex = Null )
        => /\ cards[MovedIndex].stack_type = "Waste"
           /\ IsTop(cards, MovedIndex)
           /\ cards[MovedIndex].is_face_up
           /\ \A c \in last.open0 :
                 /\ Len(sent[c]) = 1
                 /\ sent[c][1].type = "GameStateUpdate"
                 /\ sent[c][1].cards[MovedIndex].is_face_up

(***************************************************************************)
(* C21.  Resetting the stock from the waste puts every Waste card back on  *)
(* Stock, reversed and face down, and leaves Waste empty.  With one card   *)
(* on Waste and none on Stock the reset is the relay of one move: after    *)
(* it the card is the only card of Stock, Waste is empty, and the card is  *)
(* face down in the server's cards.                                        *)
(***************************************************************************)
C21_ResetCardFaceDown ==
    ( /\ AppliedMove
      /\ OldCard.stack_type = "Waste"
      /\ MovedTopCard
      /\ InStack(last.cards0, "Waste", Null) = {MovedIndex}
      /\ InStack(last.cards0, "Stock", Null) = {}
      /\ TargetType = "Stock"
      /\ TargetIndex = Null )
        => /\ InStack(cards, "Waste", Null) = {}
           /\ InStack(cards, "Stock", Null) = {MovedIndex}
           /\ cards[MovedIndex].position_in_stack = 0
           /\ ~cards[MovedIndex].is_face_up

C24_DealLayout ==
    call.fn = "deal" =>
        LET cs == call.cards
            tableau(i) == InStack(cs, "Tableau", Num(i))
            stock == InStack(cs, "Stock", Null)
        IN  /\ \A i \in 0..6 : Cardinality(tableau(i)) = i + 1
            /\ Cardinality(stock) = 24
            /\ Len(cs) = 52
            /\ \A k \in 1..52 : \E p \in 0..6 : k \in stock \cup tableau(p)
            /\ \A c \in DeckCards :
                  Cardinality({ k \in 1..Len(cs) :
                                  cs[k].suit = c.suit /\ cs[k].rank = c.rank }) = 1
            /\ \A j, k \in 1..Len(cs) : cs[j].entity.id = cs[k].entity.id => j = k
            /\ \A i \in 0..6 :
                  /\ Cardinality({ k \in tableau(i) : cs[k].is_face_up }) = 1
                  /\ \A k \in tableau(i) : cs[k].is_face_up <=> IsTop(cs, k)
                  /\ \A k \in tableau(i) : cs[k].is_face_up => cs[k].position_in_stack = i
            /\ \A k \in stock : ~cs[k].is_face_up
            /\ { cs[k].position_in_stack : k \in stock } = 0..23

\* a deck that is not in its standard order has been dealt
C24_Witness ==
    /\ call.fn = "deal"
    /\ call.deck # StandardDeck
    /\ call.deck[1] = [suit |-> "Spade", rank |-> "King"]
    /\ call.cards[1].is_face_up
    /\ call.cards[1].suit = "Spade"

(***************************************************************************)
(* C25.  can_move_to_foundation(card, foundation) is true exactly when the *)
(* foundation is empty and the card is the Ace of the suit of the          *)
(* foundation's slot, or the foundation's top card has the card's suit and *)
(* the rank just below the card's; only the top card decides.  On slot 0:  *)
(* the Ace of Spades on the empty pile is legal, then the Two of Spades is *)
(* legal and the Two of Hearts is not.                                     *)
(***************************************************************************)
C25_FoundationRule ==
    call.fn = "can_move_to_foundation" =>
        LET card == call.card
            pile == call.pile
            ace == [suit |-> call.slotSuit, rank |-> "Ace"]
            follows(low, high) ==
                \E k \in 1..12 : DeckRanks[k] = low /\ DeckRanks[k + 1] = high
        IN  /\ call.result <=>
                  \/ pile = << >> /\ card = ace
                  \/ /\ pile # << >>
                     /\ pile[Len(pile)].suit = card.suit
                     /\ follows(pile[Len(pile)].rank, card.rank)
            /\ pile # << >> =>
                  call.result = can_move_to_foundation(card, call.slotSuit,
                                                       <<pile[Len(pile)]>>)
            /\ (call.slot = 0 /\ pile = << >> /\ card = [suit |-> "Spade", rank |-> "Ace"])
                  => call.result
            /\ (call.slot = 0 /\ pile = <<[suit |-> "Spade", rank |-> "Ace"]>>)
                  => /\ card = [suit |-> "Spade", rank |-> "Two"] => call.result
                     /\ card = [suit |-> "Heart", rank |-> "Two"] => ~call.result

\* the Two of Spades was found legal on the Ace of Spades of slot 0
C25_Witness ==
    /\ call.fn = "can_move_to_foundation"
    /\ call.slot = 0
    /\ call.pile = <<[suit |-> "Spade", rank |-> "Ace"]>>
    /\ call.card = [suit |-> "Spade", rank |-> "Two"]
    /\ call.result

(***************************************************************************)
(* C26.  can_move_to_tableau(card, pile) is true exactly when the pile is  *)
(* empty, or the card's rank is one less than the rank of the pile's top   *)
(* card and the two cards differ in colour (Heart and Diamond red, Club    *)
(* and Spade black).  When a legal move takes the face-up top card off a   *)
(* Tableau pile whose next card is face down, that card is face up after   *)
(* the move.                                                               *)
(***************************************************************************)
C26_TableauRule ==
    call.fn = "can_move_to_tableau" =>
        LET cs == call.cards0
            m == CHOOSE i \in 1..Len(cs) : cs[i].entity.id = 2
            onTarget == { i \in 1..Len(cs) : cs[i].entity.id = 3 }
            under == { i \in 1..Len(cs) : cs[i].entity.id = 1 }
            red == {"Heart", "Diamond"}
            black == {"Club", "Spade"}
            follows(low, high) ==
                \E k \in 1..12 : DeckRanks[k] = low /\ DeckRanks[k + 1] = high
        IN  /\ call.result <=>
                  \/ onTarget = {}
                  \/ \E t \in onTarget :
                        /\ follows(cs[m].rank, cs[t].rank)
                        /\ \/ cs[m].suit \in red /\ cs[t].suit \in black
                           \/ cs[m].suit \in black /\ cs[t].suit \in red
            /\ \A b \in under :
                  (call.result /\ ~cs[b].is_face_up)
                      => /\ call.cards[b].is_face_up
                         /\ call.cards[b] = [cs[b] EXCEPT !.is_face_up = TRUE]
            /\ call.result =>
                  /\ call.cards[m].stack_type = "Tableau"
                  /\ call.cards[m].stack_index = Num(1)
                  /\ IsTop(call.cards, m)
            /\ ~call.result => call.cards = cs

\* the Queen of Hearts went from a face-down King of Spades to the King of
\* Clubs, and the King of Spades is face up
C26_Witness ==
    /\ call.fn = "can_move_to_tableau"
    /\ call.result
    /\ Len(call.cards0) = 3
    /\ call.cards0[1].suit = "Spade" /\ call.cards0[1].rank = "King"
    /\ ~call.cards0[1].is_face_up
    /\ call.cards0[2].suit = "Heart" /\ call.cards0[2].rank = "Queen"
    /\ call.cards0[3].suit = "Club" /\ call.cards0[3].rank = "King"
    /\ call.cards[1].is_face_up

(***************************************************************************)
(* C27.  check_win_condition is true exactly when all 52 cards are on the  *)
(* four Foundation piles, 13 of one suit on each, in rank order; with one  *)
(* card of a won game taken off its foundation it is false.                *)
(***************************************************************************)
C27_WinCondition ==
    call.fn = "check_win_condition" =>
        LET cs == call.cards
            off == { i \in 1..Len(cs) : cs[i].stack_type # "Foundation" }
        IN  /\ call.result <=> off = {}
            /\ call.result =>
                  /\ Len(cs) = 52
                  /\ \A f \in 0..3 :
                        /\ Cardinality(InStack(cs, "Foundation", Num(f))) = 13
                        /\ \A i, j \in InStack(cs, "Foundation", Num(f)) :
                              cs[i].suit = cs[j].suit
                        /\ \A i \in InStack(cs, "Foundation", Num(f)) :
                              DeckRanks[cs[i].position_in_stack + 1] = cs[i].rank
            /\ Cardinality(off) = 1 => ~call.result

\* a won game with one card taken to the Waste was found not won
C27_Witness ==
    /\ call.fn = "check_win_condition"
    /\ ~call.result
    /\ Cardinality({ i \in 1..Len(call.cards) : call.cards[i].stack_type # "Foundation" }) = 1
    /\ \E i \in 1..Len(call.cards) : call.cards[i].stack_type = "Waste"

(***************************************************************************)
(* C28.  After destroy_entity(e), get_component<T>(e) is empty for every   *)
(* registered kind T, e is in no get_all_entities_with_component<T>()      *)
(* result, and the components of every other entity are as before.         *)
(***************************************************************************)
C28_DestroyRemovesComponents ==
    (store # NoStore /\ store.op = "destroy_entity") =>
        /\ \A T \in store.kinds :
              /\ get_component(store.comps, T, store.entity) = {}
              /\ store.entity \notin get_all_entities_with_component(store.comps, T)
        /\ \A T \in store.kinds, other \in EntityIds \ {store.entity} :
              get_component(store.comps, T, other) = get_component(store.comps0, T, other)
        /\ store.entity \notin store.entities

\* an entity with components of two kinds was destroyed while another entity
\* has a component
C28_Witness ==
    /\ store # NoStore
    /\ store.op = "destroy_entity"
    /\ \A T \in ComponentKinds : get_component(store.comps0, T, store.entity) # {}
    /\ \E T \in store.kinds, other \in EntityIds \ {store.entity} :
          get_component(store.comps, T, other) # {}

(***************************************************************************)
(* C29.  After every callback, each registered open connection has been    *)
(* sent a GameJoined or GameStateUpdate, and the cards of the latest one   *)
(* are the server's cards: a callback that changes the cards sends the new *)
(* cards to every registered open connection.                              *)
(***************************************************************************)
C29_OpenConnectionsHoldCards ==
    /\ \A c \in clients :
          readyState[c] = "OPEN" => (known[c].has /\ known[c].cards = cards)
    /\ cards # last.cards0
          => \A c \in OpenClients :
                \E i \in 1..Len(sent[c]) :
                    /\ sent[c][i].type \in {"GameJoined", "GameStateUpdate"}
                    /\ sent[c][i].cards = cards

\* a move changed the cards while two connections were open
C29_Witness ==
    /\ AppliedMove
    /\ cards # last.cards0
    /\ Cardinality(OpenClients) >= 2

(***************************************************************************)
(* C30.  After every callback the ids of the players in gameState.players  *)
(* are the ids of the connections in clients: every listed player has its  *)
(* connection and every connection has its player, filed under its id.     *)
(***************************************************************************)
C30_PlayersMatchConnections ==
    /\ DOMAIN players = clients
    /\ \A p \in DOMAIN players : players[p].id = p
    /\ last.op = "connection" => last.ws \in DOMAIN players \ DOMAIN last.players0
    /\ last.op = "close" => last.ws \in DOMAIN last.players0 \ DOMAIN players

\* a connection closed and another one is still there
C30_Witness ==
    /\ last.op = "close"
    /\ clients # {}
    /\ Len(assigned) >= 2

(***************************************************************************)
(* C36.  A drag starts only on a face-up card that is not on Stock, and    *)
(* while it lasts the document's mousemove and mouseup listeners are set.  *)
(* The next mouse release ends it with the drag state cleared (isDragging  *)
(* false, element and entity id null, offsets 0) and both listeners        *)
(* removed, whether a drop target was found or not and whether sending     *)
(* threw or not.  The release sends at most one MakeMove, for the dragged  *)
(* card, and only when the release point is in a Foundation or Tableau     *)
(* drop zone.                                                              *)
(***************************************************************************)
C36_DragEndsCleared ==
    app # NoApp =>
        /\ app.drag.isDragging <=> app.drag.listeners = {"mousemove", "mouseup"}
        /\ ~app.drag.isDragging => app.drag = NoDrag
        /\ (app.handler = "mousedown" /\ app.drag # app.drag0) =>
              \E i \in 1..Len(app.world) :
                  /\ Num(app.world[i].entity.id) = app.drag.draggedEntityId
                  /\ app.world[i].is_face_up
                  /\ app.world[i].stack_type # "Stock"
        /\ app.handler = "mouseup" =>
              /\ app.drag0.isDragging
              /\ ~app.drag.isDragging
              /\ app.drag.draggedCardElement = Null
              /\ app.drag.draggedEntityId = Null
              /\ app.drag.offsetX = 0 /\ app.drag.offsetY = 0
              /\ app.drag.listeners = {}
              /\ Len(app.outbox) <= 1
              /\ app.outbox # << >> =>
                    /\ app.attempt[1] \in DropTargets
                    /\ ~app.attempt[2]
                    /\ app.outbox[1].type = "MakeMove"
                    /\ app.outbox[1].payload =
                          MakeMovePayload(Entity(app.drag0.draggedEntityId),
                                          Target(app.attempt[1][1], Num(app.attempt[1][2])))
              /\ (app.attempt[1] \in DropTargets /\ ~app.attempt[2]) => Len(app.outbox) = 1

\* a drag ended outside every drop zone: nothing was sent and the drag state
\* is cleared
C36_Witness ==
    /\ app # NoApp
    /\ app.handler = "mouseup"
    /\ app.attempt[1] = Outside
    /\ app.drag0.isDragging
    /\ app.drag0.offsetX # 0
    /\ app.drag = NoDrag
    /\ app.outbox = << >>

(***************************************************************************)
(* C37.  After every run of updateStatusDisplay the join and deal buttons  *)
(* are enabled only if the status read in that run was Connected, the      *)
(* connect button is enabled only if the status was neither Connected nor  *)
(* Connecting, and all three are disabled if reading the status failed; so *)
(* the connect button and the join button are never both enabled.          *)
(***************************************************************************)
C37_ButtonsFollowStatus ==
    app # NoApp =>
        LET enabled(disabledFlag) == ~disabledFlag
            threw == app.attempt[1]
        IN  /\ app.handler = "updateStatusDisplay" =>
                  /\ enabled(app.buttons.joinDisabled)
                        => (app.tick.status = "Connected" /\ threw = "none")
                  /\ enabled(app.buttons.dealDisabled)
                        => (app.tick.status = "Connected" /\ threw = "none")
                  /\ enabled(app.buttons.connectDisabled)
                        => (app.tick.status \notin {"Connected", "Connecting"}
                               /\ threw = "none")
                  /\ threw # "none" =>
                        /\ app.buttons.connectDisabled
                        /\ app.buttons.joinDisabled
                        /\ app.buttons.dealDisabled
                  /\ (threw = "none" /\ app.tick.status = "Connected")
                        => (enabled(app.buttons.joinDisabled)
                               /\ enabled(app.buttons.dealDisabled))
            /\ ~(enabled(app.buttons.connectDisabled) /\ enabled(app.buttons.joinDisabled))

\* the status was read as Connected but showing it failed: all three buttons
\* are disabled
C37_Witness ==
    /\ app # NoApp
    /\ app.handler = "updateStatusDisplay"
    /\ app.attempt[1] = "display"
    /\ app.tick.status = "Connected"
    /\ app.buttons = Buttons(TRUE, TRUE, TRUE)

(***************************************************************************)
(* C38.  Every run of the periodic loop drains the inbound messages        *)
(* exactly once, also when reading the status failed; it calls the         *)
(* renderer at most once, only after the draining call has returned and    *)
(* only if that call reported a change; and after a run in which draining  *)
(* or rendering failed the loop runs again.                                *)
(***************************************************************************)
C38_DrainOncePerTick ==
    (app # NoApp /\ app.handler = "updateStatusDisplay") =>
        LET calls == app.tick.calls
            drains == { i \in 1..Len(calls) : calls[i] = "process_received_messages" }
            renders == { i \in 1..Len(calls) : calls[i] = "render_game_rust" }
            drained == app.attempt[2]
        IN  /\ Cardinality(drains) = 1
            /\ Cardinality(renders) <= 1
            /\ \A r \in renders : \A d \in drains : d < r
            /\ renders # {} <=> (drained = "returned" /\ app.tick.changed)
            /\ app.drawn # << >> => renders # {}
            /\ app.interval
            /\ ENABLED updateStatusDisplay("Connected", "none", "returned",
                                           Len(app.inbox), TRUE)

\* reading the status failed, the queue was drained all the same, and the
\* change it reported was rendered
C38_Witness ==
    /\ app # NoApp
    /\ app.handler = "updateStatusDisplay"
    /\ app.attempt[1] = "status"
    /\ app.attempt[2] = "returned"
    /\ app.tick.changed
    /\ app.drawn = <<app.world>>
    /\ app.world # app.world0

(***************************************************************************)
(* C31.  For every open connection, the player set obtained from the player*)
(* list of its GameJoined by applying, in order, each PlayerJoined (add)   *)
(* and each PlayerLeft (remove) the server sent it is the server's player  *)
(* list, after any sequence of connects and closes.                        *)
(***************************************************************************)
C31_PlayersReconstructed ==
    \A c \in OpenClients :
        /\ known[c].has
        /\ known[c].players = { players[p] : p \in DOMAIN players }

\* connection 1 was told of the player that joined after it and has now been
\* told that this player left: it knows itself only
C31_Witness ==
    /\ last.op = "close"
    /\ last.ws = 2
    /\ 1 \in OpenClients
    /\ \E i \in 1..Len(sent[1]) : sent[1][i] = PlayerLeft(2)
    /\ known[1].players = {Player(1)}
    /\ Player(2) \in { last.players0[p] : p \in DOMAIN last.players0 }

(***************************************************************************)
(* C32.  A MakeMove the server applies changes only the moved card's       *)
(* stack_type, stack_index and position_in_stack and at most one other     *)
(* card's is_face_up, from false to true: no card is added or removed, no  *)
(* entity id, suit or rank changes, the moved card's own is_face_up does   *)
(* not change, no card is turned face down, no other card's placement      *)
(* changes, and the player list does not change.                           *)
(***************************************************************************)
C32_MoveChangesOnlyMovedCard ==
    AppliedMove =>
        LET cards0 == last.cards0
            m == MovedCardIndex(cards0, MovedEntityOf(last.payload))
            flipped == { i \in 1..Len(cards0) :
                           cards[i].is_face_up # cards0[i].is_face_up }
        IN  /\ Len(cards) = Len(cards0)
            /\ players = last.players0
            /\ \A i \in 1..Len(cards0) :
                  /\ cards[i].entity = cards0[i].entity
                  /\ cards[i].suit = cards0[i].suit
                  /\ cards[i].rank = cards0[i].rank
                  /\ cards0[i].is_face_up => cards[i].is_face_up
                  /\ i # m =>
                        /\ cards[i].stack_type = cards0[i].stack_type
                        /\ cards[i].stack_index = cards0[i].stack_index
                        /\ cards[i].position_in_stack = cards0[i].position_in_stack
            /\ Cardinality(flipped) <= 1
            /\ m \notin flipped

\* the same, but the moved card's own is_face_up may change when the card is
\* moved onto the Tableau pile it is already on; at most one card's
\* is_face_up changes in all
C32_MoveChangesPlacementAndOneFace ==
    AppliedMove =>
        LET cards0 == last.cards0
            m == MovedCardIndex(cards0, MovedEntityOf(last.payload))
            target_stack == TargetStackOf(last.payload)
            flipped == { i \in 1..Len(cards0) :
                           cards[i].is_face_up # cards0[i].is_face_up }
        IN  /\ Len(cards) = Len(cards0)
            /\ players = last.players0
            /\ \A i \in 1..Len(cards0) :
                  /\ cards[i].entity = cards0[i].entity
                  /\ cards[i].suit = cards0[i].suit
                  /\ cards[i].rank = cards0[i].rank
                  /\ cards0[i].is_face_up => cards[i].is_face_up
                  /\ i # m =>
                        /\ cards[i].stack_type = cards0[i].stack_type
                        /\ cards[i].stack_index = cards0[i].stack_index
                        /\ cards[i].position_in_stack = cards0[i].position_in_stack
            /\ Cardinality(flipped) <= 1
            /\ m \in flipped =>
                  /\ cards0[m].stack_type = "Tableau"
                  /\ target_stack[2] = "Tableau"
                  /\ target_stack[3] = cards0[m].stack_index

\* a face-down card was moved off a Tableau pile onto another stack: its
\* placement changed, it is still face down, and the card beneath it was
\* turned face up
C32_Witness ==
    /\ AppliedMove
    /\ LET cards0 == last.cards0
           m == MovedCardIndex(cards0, MovedEntityOf(last.payload))
       IN  /\ ~cards0[m].is_face_up
           /\ ~cards[m].is_face_up
           /\ cards[m].stack_type # cards0[m].stack_type
           /\ \E i \in 1..Len(cards0) :
                 /\ i # m
                 /\ ~cards0[i].is_face_up
                 /\ cards[i].is_face_up

(***************************************************************************)
(* C33.  Of the ProvideInitialState messages the server receives, the      *)
(* first whose card array is not empty sets the card list, and no later    *)
(* one replaces it: once the list is not empty its cards (entity id, suit, *)
(* rank, in order) stay the same.  A ProvideInitialState with an empty     *)
(* array is accepted and broadcast while the list is empty, and leaves the *)
(* list empty, so that a later initial state is still accepted.            *)
(***************************************************************************)
C33_FirstInitialStateWins ==
    [][/\ Len(cards) # 0 =>
             [i \in 1..Len(cards') |-> <<cards'[i].entity, cards'[i].suit, cards'[i].rank>>]
                 = [i \in 1..Len(cards) |-> <<cards[i].entity, cards[i].suit, cards[i].rank>>]
       /\ \A provided \in {<< >>, DealA, DealB} :
             (/\ last'.op = "ProvideInitialState"
              /\ last'.payload = InitialStatePayload(Arr(provided)))
                 => IF Len(cards) = 0
                    THEN /\ cards' = provided
                         /\ \A c \in Conns :
                               sent'[c] = IF c \in OpenClients
                                          THEN <<GameStateUpdate(players, provided)>>
                                          ELSE << >>
                    ELSE /\ cards' = cards
                         /\ sent' = NoneSent]_vars

\* a deal was accepted, and now a ProvideInitialState with another deal has
\* been ignored: the cards are those of the first deal and nothing was sent
C33_Witness ==
    /\ last.op = "ProvideInitialState"
    /\ last.payload = InitialStatePayload(Arr(DealB))
    /\ Len(last.cards0) # 0
    /\ cards = last.cards0
    /\ \A i \in 1..Len(cards) : cards[i].suit = DealA[i].suit /\ cards[i].rank = DealA[i].rank
    /\ sent = NoneSent

(***************************************************************************)
(* C34.  Handling a MakeMove is all or nothing: either the move is applied *)
(* in full (the moved card is in the target stack, the card beneath its    *)
(* old place is face up where step 4 applies) and the new card list is     *)
(* broadcast as a GameStateUpdate, or no card field is modified and        *)
(* nothing is sent.  No payload leaves a modified card list without a      *)
(* broadcast.                                                              *)
(***************************************************************************)
C34_MoveAllOrNothing ==
    last.op = "MakeMove" =>
        LET cards0 == last.cards0
            payload == last.payload
            nothing == cards = cards0 /\ sent = NoneSent
            broadcast == SentToAllOpen(GameStateUpdate(players, cards))
            beneath(m) ==
                { i \in 1..Len(cards) :
                    /\ cards[i].stack_type = cards0[m].stack_type
                    /\ cards[i].stack_index = cards0[m].stack_index
                    /\ cards[i].position_in_stack = cards0[m].position_in_stack - 1 }
            applied ==
                /\ payload # Undefined
                /\ payload[2] \notin {Undefined, Null}
                /\ payload[3] \notin {Undefined, Null}
                /\ \E m \in 1..Len(cards0) :
                      /\ Num(cards0[m].entity.id) = payload[2][2]
                      /\ cards[m].stack_type = payload[3][2]
                      /\ cards[m].stack_index = payload[3][3]
                      /\ \A i \in 1..Len(cards0) :
                            (i # m /\ cards[i].stack_type = cards[m].stack_type
                                   /\ cards[i].stack_index = cards[m].stack_index)
                               => cards[i].position_in_stack < cards[m].position_in_stack
                      /\ (/\ cards0[m].stack_type = "Tableau"
                          /\ cards0[m].position_in_stack > 0
                          /\ beneath(m) # {})
                             => \E i \in beneath(m) : cards[i].is_face_up
        IN  /\ nothing \/ (applied /\ broadcast)
            /\ cards # cards0 => broadcast
            /\ sent # NoneSent => (applied /\ broadcast)

\* a MakeMove whose target_stack is null names a card of the list: the
\* handler throws, no card is modified and nothing is sent
C34_Witness ==
    /\ last.op = "MakeMove"
    /\ last.payload = MakeMovePayload(Entity(Num(1)), Null)
    /\ Len(last.cards0) > 0
    /\ cards = last.cards0
    /\ sent = NoneSent

(***************************************************************************)
(* C35.  Handling the same MakeMove twice in a row leaves the same card    *)
(* list (placement and face-up flag of every card) as handling it once:    *)
(* handled again on the card list an applied MakeMove has left, the same   *)
(* MakeMove changes nothing.                                               *)
(***************************************************************************)
C35_MoveIdempotent ==
    AppliedMove => MovedCards(cards, last.payload) = cards

\* the same for the placement of every card; a face-up flag differs only
\* when the target is a Tableau pile and the card directly beneath the moved
\* card there is face down after the first handling: the second handling
\* turns that card, and no other, face up
C35_MoveIdempotentButBeneath ==
    AppliedMove =>
        LET again == MovedCards(cards, last.payload)
            m == MovedCardIndex(last.cards0, MovedEntityOf(last.payload))
            beneath == { i \in 1..Len(cards) :
                           /\ cards[i].stack_type = cards[m].stack_type
                           /\ cards[i].stack_index = cards[m].stack_index
                           /\ cards[i].position_in_stack = cards[m].position_in_stack - 1 }
            differ == { i \in 1..Len(cards) : again[i] # cards[i] }
        IN  /\ MoveOutcome(cards, last.payload) = "applied"
            /\ Len(again) = Len(cards)
            /\ \A i \in 1..Len(cards) :
                  /\ again[i].entity = cards[i].entity
                  /\ again[i].suit = cards[i].suit
                  /\ again[i].rank = cards[i].rank
                  /\ again[i].stack_type = cards[i].stack_type
                  /\ again[i].stack_index = cards[i].stack_index
                  /\ again[i].position_in_stack = cards[i].position_in_stack
            /\ Cardinality(differ) <= 1
            /\ \A i \in differ :
                  /\ cards[m].stack_type = "Tableau"
                  /\ i \in beneath
                  /\ ~cards[i].is_face_up
                  /\ again[i].is_face_up
            /\ (cards[m].stack_type # "Tableau"
                   \/ \A i \in beneath : cards[i].is_face_up) => again = cards

\* a card was moved off its pile onto a face-up card of a Tableau pile, the
\* card it left was turned face up, and handling the move again changes
\* nothing
C35_Witness ==
    /\ AppliedMove
    /\ LET m == MovedCardIndex(last.cards0, MovedEntityOf(last.payload))
       IN  /\ cards[m].stack_type = "Tableau"
           /\ cards[m].position_in_stack > 0
           /\ cards[m].stack_index # last.cards0[m].stack_index
           /\ \E i \in 1..Len(cards) : cards[i].is_face_up /\ ~last.cards0[i].is_face_up
    /\ MovedCards(cards, last.payload) = cards
====
